---- MODULE Spec2Model ----
(***************************************************************************)
(* Model of the budget-extraction pipeline of qld-youth-justice-tracker:   *)
(* TreasuryBudgetScraper (src/src/scrapers/treasury_budget_scraper.py),    *)
(* BudgetScraper (src/src/scrapers/budget_scraper.py) and the SQLAlchemy   *)
(* session they write through (src/src/database/__init__.py).             *)
(*                                                                         *)
(* Texts are TLA+ strings handled character by character (Len, SubSeq,     *)
(* \o), so that `in`, str.lower, str.strip, slicing and the regular        *)
(* expressions of the source are computed, not assumed.                    *)
(* A float is modelled exactly as a record [whole, cents] (a decimal with  *)
(* at most two fractional digits); binary rounding is not modelled.        *)
(***************************************************************************)
EXTENDS Integers, Sequences, FiniteSets

(***************************************************************************)
(* Python string primitives                                                *)
(***************************************************************************)
UpperChars == "ABCDEFGHIJKLMNOPQRSTUVWXYZ"

LowerChars == "abcdefghijklmnopqrstuvwxyz"

DigitChars == "0123456789"

\* the i-th character of s as a one-character string, "" outside the string
At(s, i) == IF i >= 1 /\ i <= Len(s) THEN SubSeq(s, i, i) ELSE ""

\* s[i-1:] of Python for a 1-based position i
From(s, i) == IF i > Len(s) THEN "" ELSE SubSeq(s, i, Len(s))

\* s[:n]
Prefix(s, n) == IF Len(s) <= n THEN s ELSE SubSeq(s, 1, n)

IsUpper(c) == \E i \in 1..26 : SubSeq(UpperChars, i, i) = c

IsLower(c) == \E i \in 1..26 : SubSeq(LowerChars, i, i) = c

IsLetter(c) == IsUpper(c) \/ IsLower(c)

IsDigit(c) == \E i \in 1..10 : SubSeq(DigitChars, i, i) = c

\* \s of the re module, restricted to the whitespace the inputs contain
IsSpace(c) == c \in {" ", "\t", "\n"}

DigitValue(c) == (CHOOSE i \in 1..10 : SubSeq(DigitChars, i, i) = c) - 1

LowerChar(c) ==
    IF IsUpper(c)
    THEN LET i == CHOOSE j \in 1..26 : SubSeq(UpperChars, j, j) = c
         IN  SubSeq(LowerChars, i, i)
    ELSE c

RECURSIVE lower(_)
\* str.lower()
lower(s) ==
    IF Len(s) <= 1 THEN LowerChar(s)
    ELSE lower(SubSeq(s, 1, Len(s) \div 2))
           \o lower(SubSeq(s, (Len(s) \div 2) + 1, Len(s)))

\* s.startswith(w, i-1)
StartsWithAt(s, i, w) ==
    /\ i >= 1
    /\ i + Len(w) - 1 <= Len(s)
    /\ (w = "" \/ SubSeq(s, i, i + Len(w) - 1) = w)

\* w in s
Contains(s, w) == \E i \in 1..(Len(s) + 1) : StartsWithAt(s, i, w)

\* str.strip()
strip(s) ==
    LET keep == {i \in 1..Len(s) : ~IsSpace(At(s, i))}
    IN  IF keep = {} THEN ""
        ELSE LET lo == CHOOSE i \in keep : \A j \in keep : i <= j
                 hi == CHOOSE i \in keep : \A j \in keep : i >= j
             IN  SubSeq(s, lo, hi)

\* the first position >= i that holds no whitespace (\s* consumed greedily)
RECURSIVE SkipSpaces(_, _)
SkipSpaces(s, i) == IF IsSpace(At(s, i)) THEN SkipSpaces(s, i + 1) ELSE i

(***************************************************************************)
(* TreasuryBudgetScraper.__init__: the keyword lists                       *)
(***************************************************************************)
youth_justice_keywords ==
    << "youth justice", "youth detention", "juvenile justice",
       "cleveland youth detention", "west moreton youth detention",
       "youth crime", "young offender", "youth offender",
       "community youth justice", "youth engagement",
       "supervised community accommodation", "restorative justice",
       "youth bail", "youth court", "children's court",
       "youth rehabilitation", "youth diversion" >>

detention_keywords ==
    << "detention", "cleveland", "west moreton", "secure facility",
       "custody", "remand", "secure accommodation" >>

community_keywords ==
    << "community", "diversion", "restorative", "supervision",
       "bail support", "family support", "early intervention",
       "prevention", "rehabilitation", "reintegration" >>

\* the literal list of line 271
facility_names == << "cleveland", "west moreton" >>

\* any(keyword in text for keyword in keywords)
AnyKeyword(keywords, text) ==
    \E i \in 1..Len(keywords) : Contains(text, keywords[i])

\* sum(1 for keyword in keywords if keyword in text_lower)
KeywordScore(keywords, text_lower) ==
    Cardinality({i \in 1..Len(keywords) : Contains(text_lower, keywords[i])})

(***************************************************************************)
(* TreasuryBudgetScraper._categorize_program                               *)
(***************************************************************************)
\* a _categorize_program whose first comparison is >= : a tie goes to detention
categorize_ties_to_detention(text) ==
    LET text_lower      == lower(text)
        detention_score == KeywordScore(detention_keywords, text_lower)
        community_score == KeywordScore(community_keywords, text_lower)
    IN  IF detention_score >= community_score /\ detention_score > 0 THEN "detention"
        ELSE IF community_score > 0 THEN "community"
        ELSE IF AnyKeyword(facility_names, text_lower) THEN "detention"
        ELSE "community"

categorize_program(text) ==
    LET text_lower      == lower(text)
        detention_score == KeywordScore(detention_keywords, text_lower)
        community_score == KeywordScore(community_keywords, text_lower)
    IN  IF detention_score > community_score THEN "detention"
        ELSE IF community_score > 0 THEN "community"
        ELSE IF AnyKeyword(facility_names, text_lower) THEN "detention"
        ELSE "community"

(***************************************************************************)
(* Amounts: float(...) and the multiplications of the source               *)
(***************************************************************************)
\* x.replace(',', '')
RECURSIVE StripCommas(_)
StripCommas(s) ==
    IF s = "" THEN ""
    ELSE (IF Head(s) = "," THEN "" ELSE Head(s)) \o StripCommas(Tail(s))

\* the value of a string of decimal digits ("" is 0)
RECURSIVE DigitsValue(_)
DigitsValue(s) ==
    IF s = "" THEN 0
    ELSE 10 * DigitsValue(SubSeq(s, 1, Len(s) - 1)) + DigitValue(At(s, Len(s)))

\* whether float(s) raises ValueError, for s of the shape digits* [. digits+]
\* that a token of the amount patterns has once its commas are removed
FloatRaises(s) == s = ""

\* float(s) as [whole, cents], for s of the same shape with at most two
\* fractional digits
ParseFloat(s) ==
    LET dots == {i \in 1..Len(s) : At(s, i) = "."}
        dot  == IF dots = {} THEN Len(s) + 1 ELSE CHOOSE i \in dots : TRUE
        frac == From(s, dot + 1)
    IN  [ whole |-> DigitsValue(Prefix(s, dot - 1)),
          cents |-> IF Len(frac) = 0 THEN 0
                    ELSE IF Len(frac) = 1 THEN 10 * DigitsValue(frac)
                    ELSE DigitsValue(Prefix(frac, 2)) ]

Zero == [whole |-> 0, cents |-> 0]

\* amount *= 1_000 (thousands = 1) or amount *= 1_000_000 (thousands = 1000)
TimesThousand(amount, thousands) ==
    [ whole |-> amount.whole * 1000 * thousands + amount.cents * 10 * thousands,
      cents |-> 0 ]

\* a < b on floats
Less(a, b) == a.whole < b.whole \/ (a.whole = b.whole /\ a.cents < b.cents)

\* a + b on floats
Plus(a, b) ==
    [ whole |-> a.whole + b.whole + ((a.cents + b.cents) \div 100),
      cents |-> (a.cents + b.cents) % 100 ]

(***************************************************************************)
(* The amount pattern of both scrapers:                                    *)
(*   \$?([\d,]+(?:\.\d+)?)\s*(?:million|m|thousand|k)?                     *)
(***************************************************************************)
\* [\d,]
IsNumChar(c) == IsDigit(c) \/ c = ","

RECURSIVE NumRunEnd(_, _)
\* the position after the greedy [\d,]+ that starts at i
NumRunEnd(s, i) == IF IsNumChar(At(s, i)) THEN NumRunEnd(s, i + 1) ELSE i

RECURSIVE DigitRunEnd(_, _)
\* the position after the greedy \d+ that starts at i
DigitRunEnd(s, i) == IF IsDigit(At(s, i)) THEN DigitRunEnd(s, i + 1) ELSE i

\* the position after [\d,]+(?:\.\d+)? matched greedily from i
NumberEnd(s, i) ==
    LET j == NumRunEnd(s, i)
    IN  IF At(s, j) = "." /\ IsDigit(At(s, j + 1)) THEN DigitRunEnd(s, j + 1) ELSE j

\* (?:million|m|thousand|k)? at p: the alternative taken, "" when none is
MagnitudeAt(s, p) ==
    IF StartsWithAt(s, p, "million") THEN "million"
    ELSE IF StartsWithAt(s, p, "m") THEN "m"
    ELSE IF StartsWithAt(s, p, "thousand") THEN "thousand"
    ELSE IF StartsWithAt(s, p, "k") THEN "k"
    ELSE ""

RECURSIVE AmountMatches(_, _)
\* the successive non-overlapping matches of the amount pattern from i on:
\* group 1 (str) and the magnitude alternative the match consumed
AmountMatches(s, i) ==
    IF i > Len(s) THEN <<>>
    ELSE LET start == IF At(s, i) = "$" /\ IsNumChar(At(s, i + 1)) THEN i + 1 ELSE i
         IN  IF IsNumChar(At(s, start))
             THEN LET e == NumberEnd(s, start)
                      p == SkipSpaces(s, e)
                      m == MagnitudeAt(s, p)
                  IN  << [str |-> SubSeq(s, start, e - 1), magnitude |-> m] >>
                        \o AmountMatches(s, p + Len(m))
             ELSE LET later == {j \in (i + 1)..Len(s) : IsNumChar(At(s, j))}
                  IN  IF later = {} THEN <<>>
                      ELSE AmountMatches(s, CHOOSE j \in later :
                                               \A k \in later : j <= k)

RECURSIVE Groups(_, _)
\* group 1 of each match, from match i on
Groups(matches, i) ==
    IF i > Len(matches) THEN <<>> ELSE <<matches[i].str>> \o Groups(matches, i + 1)

\* re.findall(amount_pattern, row_text): the list of group 1
findall_amounts(row_text) == Groups(AmountMatches(row_text, 1), 1)

\* max(amounts, key=lambda x: float(x.replace(',', ''))): the first item of
\* greatest key
max_amount(amounts) ==
    LET key(i) == ParseFloat(StripCommas(amounts[i]))
        best   == CHOOSE i \in 1..Len(amounts) :
                      /\ \A j \in 1..Len(amounts) : ~Less(key(i), key(j))
                      /\ \A j \in 1..(i - 1) : Less(key(j), key(i))
    IN  amounts[best]

(***************************************************************************)
(* TreasuryBudgetScraper._extract_program_name                             *)
(* The three patterns are searched with re.IGNORECASE: literals are        *)
(* compared on lower(text), [A-Z] accepts any letter, [^.] anything but    *)
(* a full stop.                                                            *)
(***************************************************************************)
program_triggers == << "program", "initiative", "service" >>

place_triggers == << "program", "initiative", "service", "centre", "facility" >>

funding_triggers == << "funding", "allocation" >>

lead_words == << "for", "to", "in" >>

youth_words == << "youth justice", "youth" >>

\* \s+ followed by one of the trigger words, from position q of the lowered text
TriggerAfter(tl, q, triggers) ==
    /\ IsSpace(At(tl, q))
    /\ LET r == SkipSpaces(tl, q)
       IN  \E t \in 1..Len(triggers) : StartsWithAt(tl, r, triggers[t])

\* no full stop in text[first..last], which lies within the text
NoFullStop(text, first, last) ==
    /\ last <= Len(text)
    /\ \A j \in first..last : At(text, j) # "."

\* [A-Z][^.]{10,50}? at g, then the trigger: the lengths n of the lazy part
\* for which the rest of the pattern matches
LetterGroupLens(tl, g, triggers) ==
    IF ~IsLetter(At(tl, g)) THEN {}
    ELSE {n \in 10..50 : /\ TriggerAfter(tl, g + n + 1, triggers)
                         /\ NoFullStop(tl, g + 1, g + n)}

\* the least element of a non-empty set of integers
Least(S) == CHOOSE x \in S : \A y \in S : x <= y

\* the greatest element of a non-empty set of integers
Greatest(S) == CHOOSE x \in S : \A y \in S : x >= y

\* pattern 1: (?:for|to|in)\s+([A-Z][^.]{10,50}?)(?:\s+program|\s+initiative|\s+service)
\* the group start reached from a match start i, 0 when the pattern fails at i
Pattern1Group(tl, i) ==
    LET ws == {w \in 1..Len(lead_words) : StartsWithAt(tl, i, lead_words[w])}
    IN  IF ws = {} THEN 0
        ELSE LET a == i + Len(lead_words[Least(ws)])
                 g == SkipSpaces(tl, a)
             IN  IF g > a /\ LetterGroupLens(tl, g, program_triggers) # {}
                 THEN g ELSE 0

Pattern1Search(text, tl) ==
    LET hits == {i \in 1..Len(tl) : Pattern1Group(tl, i) # 0}
    IN  IF hits = {} THEN [matched |-> FALSE, group |-> ""]
        ELSE LET g == Pattern1Group(tl, Least(hits))
                 n == Least(LetterGroupLens(tl, g, program_triggers))
             IN  [matched |-> TRUE, group |-> SubSeq(text, g, g + n)]

\* pattern 2: ([A-Z][^.]{10,50}?)\s+(?:program|initiative|service|centre|facility)
Pattern2Search(text, tl) ==
    LET hits == {i \in 1..Len(tl) : LetterGroupLens(tl, i, place_triggers) # {}}
    IN  IF hits = {} THEN [matched |-> FALSE, group |-> ""]
        ELSE LET g == Least(hits)
                 n == Least(LetterGroupLens(tl, g, place_triggers))
             IN  [matched |-> TRUE, group |-> SubSeq(text, g, g + n)]

\* pattern 3: (?:youth justice|youth)\s+([^.]{10,50}?)(?:\s+funding|\s+allocation)
\* the ways it matches from i: <<alternative, whitespace taken by \s+, lazy length>>
Pattern3Ways(tl, i) ==
    UNION { LET a == i + Len(youth_words[w])
            IN  {<<w, k, n>> : <<k, n>> \in
                    {kn \in (1..(SkipSpaces(tl, a) - a)) \X (10..50) :
                        /\ TriggerAfter(tl, a + kn[1] + kn[2], funding_triggers)
                        /\ NoFullStop(tl, a + kn[1], a + kn[1] + kn[2] - 1)}}
          : w \in {v \in 1..Len(youth_words) : StartsWithAt(tl, i, youth_words[v])} }

\* the way the backtracking matcher finds first: alternatives in order, \s+
\* greedy, the group lazy
Pattern3First(tl, i) ==
    LET ways == Pattern3Ways(tl, i)
        alt  == Least({w[1] : w \in ways})
        k    == Greatest({w[2] : w \in {v \in ways : v[1] = alt}})
        n    == Least({w[3] : w \in {v \in ways : v[1] = alt /\ v[2] = k}})
    IN  <<alt, k, n>>

Pattern3Search(text, tl) ==
    LET hits == {i \in 1..Len(tl) : Pattern3Ways(tl, i) # {}}
    IN  IF hits = {} THEN [matched |-> FALSE, group |-> ""]
        ELSE LET i == Least(hits)
                 w == Pattern3First(tl, i)
                 g == i + Len(youth_words[w[1]]) + w[2]
             IN  [matched |-> TRUE, group |-> SubSeq(text, g, g + w[3] - 1)]

\* re.search(patterns[p], text, re.IGNORECASE)
search_pattern(p, text, tl) ==
    IF p = 1 THEN Pattern1Search(text, tl)
    ELSE IF p = 2 THEN Pattern2Search(text, tl)
    ELSE Pattern3Search(text, tl)

\* for pattern in patterns: match = re.search(...); if match: return
\* match.group(1).strip(); fallback text[:100].strip()
RECURSIVE PatternLoop(_, _, _)
PatternLoop(text, tl, p) ==
    IF p > 3 THEN strip(Prefix(text, 100))
    ELSE LET group_or_next(match) ==
                 IF match.matched THEN strip(match.group)
                 ELSE PatternLoop(text, tl, p + 1)
         IN  group_or_next(search_pattern(p, text, tl))

extract_program_name(text) == PatternLoop(text, lower(text), 1)

(***************************************************************************)
(* TreasuryBudgetScraper: from a table row or a sentence to an allocation  *)
(***************************************************************************)
\* the value `return None` gives
None == [kind |-> "None"]

\* the outcome of a call that raises (ValueError of float(''))
Raise == [kind |-> "raise"]

\* the multiplication of lines 208-211 with the sign of a "-" in the row
\* given to the amount
signed_multiplier(amount, row_text) ==
    LET tl == lower(row_text)
        sign == IF Contains(row_text, "-") THEN -1 ELSE 1
    IN  IF Contains(tl, "million") \/ Contains(tl, " m")
        THEN TimesThousand([amount EXCEPT !.whole = sign * @], 1000)
        ELSE IF Contains(tl, "thousand") \/ Contains(tl, " k")
        THEN TimesThousand([amount EXCEPT !.whole = sign * @], 1)
        ELSE [amount EXCEPT !.whole = sign * @]

\* the multiplier chosen by lines 208-211, applied to amount
apply_multiplier(amount, row_text) ==
    LET tl == lower(row_text)
    IN  IF Contains(tl, "million") \/ Contains(tl, " m")
        THEN TimesThousand(amount, 1000)
        ELSE IF Contains(tl, "thousand") \/ Contains(tl, " k")
        THEN TimesThousand(amount, 1)
        ELSE amount

\* a row without an amount kept as an allocation of amount 0
zero_amount(row_text, fiscal_year) ==
    [ kind        |-> "allocation",
      fiscal_year |-> fiscal_year,
      program     |-> row_text,
      category    |-> "community",
      amount      |-> Zero,
      description |-> row_text,
      source_type |-> "budget_table" ]

\* lines 200-201: what a row in which the pattern finds nothing gives
no_amounts(row_text, fiscal_year) == None

extract_allocation_from_row(row_text, fiscal_year) ==
    LET amounts == findall_amounts(row_text)
    IN  IF Len(amounts) = 0 THEN no_amounts(row_text, fiscal_year)
        ELSE IF \E i \in 1..Len(amounts) : FloatRaises(StripCommas(amounts[i]))
        THEN Raise
        ELSE [ kind        |-> "allocation",
               fiscal_year |-> fiscal_year,
               program     |-> extract_program_name(row_text),
               category    |-> categorize_program(row_text),
               amount      |-> apply_multiplier(
                                   ParseFloat(StripCommas(max_amount(amounts))),
                                   row_text),
               description |-> Prefix(row_text, 500),
               source_type |-> "budget_table" ]

RECURSIVE JoinCells(_, _)
\* ' '.join(str(cell) for cell in row if cell), from cell i on
JoinCells(row, i) ==
    IF i > Len(row) THEN ""
    ELSE LET rest == JoinCells(row, i + 1)
         IN  IF row[i] = "" THEN rest
             ELSE IF rest = "" THEN row[i]
             ELSE row[i] \o " " \o rest

\* row and any('$' in str(cell) or 'budget' in str(cell).lower() for cell in row)
looks_like_header(row) ==
    \E c \in 1..Len(row) : Contains(row[c], "$") \/ Contains(lower(row[c]), "budget")

\* the 0-based header_row of lines 167-171
header_row(table) ==
    LET found == {i \in 1..Len(table) : i <= 5 /\ looks_like_header(table[i])}
    IN  IF found = {} THEN 0 ELSE Least(found) - 1

\* the body of the row loop of _process_budget_table (lines 180-187): the
\* allocation to append, None when the row adds nothing, Raise when
\* _extract_allocation_from_row raises
process_row(row_text, fiscal_year) ==
    IF AnyKeyword(youth_justice_keywords, lower(row_text))
    THEN extract_allocation_from_row(row_text, fiscal_year)
    ELSE None

RECURSIVE ProcessRows(_, _, _, _)
\* the loop of lines 179-187 from (1-based) row i on, acc being the
\* allocations gathered so far; the except of line 189 ends it
ProcessRows(table, i, fiscal_year, acc) ==
    IF i > Len(table) THEN acc
    ELSE LET append(allocation) ==
                 IF allocation = Raise THEN acc
                 ELSE ProcessRows(table, i + 1, fiscal_year,
                                  IF allocation = None THEN acc
                                  ELSE Append(acc, allocation))
         IN  append(process_row(JoinCells(table[i], 1), fiscal_year))

process_budget_table(table, fiscal_year) ==
    ProcessRows(table, header_row(table) + 2, fiscal_year, <<>>)

\* [.!?]
IsSentenceEnd(c) == c \in {".", "!", "?"}

RECURSIVE split_sentences(_)
\* re.split(r'[.!?]', text)
split_sentences(text) ==
    LET ends == {i \in 1..Len(text) : IsSentenceEnd(At(text, i))}
    IN  IF ends = {} THEN <<text>>
        ELSE LET e == Least(ends)
             IN  <<Prefix(text, e - 1)>> \o split_sentences(From(text, e + 1))

\* re.search(r'\$?([\d,]+(?:\.\d+)?)\s*(?:million|m)', sentence): group 1 of
\* the leftmost match
search_million(sentence) ==
    LET hits == {i \in 1..Len(sentence) :
                    /\ IsNumChar(At(sentence, i))
                    /\ StartsWithAt(sentence,
                                    SkipSpaces(sentence, NumberEnd(sentence, i)), "m")}
    IN  IF hits = {} THEN [matched |-> FALSE, group |-> ""]
        ELSE LET i == Least(hits)
             IN  [matched |-> TRUE,
                  group   |-> SubSeq(sentence, i, NumberEnd(sentence, i) - 1)]

RECURSIVE TextLoop(_, _, _, _)
\* the loop of lines 235-254 from sentence i on
TextLoop(sentences, i, fiscal_year, acc) ==
    IF i > Len(sentences) THEN [raised |-> FALSE, allocations |-> acc]
    ELSE LET sentence == sentences[i]
             body(amount_match) ==
                 IF AnyKeyword(youth_justice_keywords, lower(sentence))
                    /\ amount_match.matched
                 THEN IF FloatRaises(StripCommas(amount_match.group))
                      THEN [raised |-> TRUE, allocations |-> <<>>]
                      ELSE TextLoop(sentences, i + 1, fiscal_year, Append(acc,
                             [ kind        |-> "allocation",
                               fiscal_year |-> fiscal_year,
                               program     |-> extract_program_name(sentence),
                               category    |-> categorize_program(sentence),
                               amount      |-> TimesThousand(
                                      ParseFloat(StripCommas(amount_match.group)), 1000),
                               description |-> strip(sentence),
                               source_type |-> "budget_text" ]))
                 ELSE TextLoop(sentences, i + 1, fiscal_year, acc)
         IN  body(search_million(sentence))

extract_text_allocations(text, fiscal_year) ==
    TextLoop(split_sentences(text), 1, fiscal_year, <<>>)

RECURSIVE TablesLoop(_, _, _)
\* the loop of lines 141-147 over the tables of one page
TablesLoop(tables, t, fiscal_year) ==
    IF t > Len(tables) THEN <<>>
    ELSE (IF Len(tables[t]) = 0 THEN <<>>
          ELSE process_budget_table(tables[t], fiscal_year))
         \o TablesLoop(tables, t + 1, fiscal_year)

RECURSIVE PagesLoop(_, _, _, _)
\* the loop of lines 128-151 from page p on; the except of line 153 ends it
PagesLoop(pages, p, fiscal_year, allocations) ==
    IF p > Len(pages) THEN allocations
    ELSE IF ~AnyKeyword(youth_justice_keywords, lower(pages[p].text))
    THEN PagesLoop(pages, p + 1, fiscal_year, allocations)
    ELSE LET extend(with_tables, text_allocations) ==
                 IF text_allocations.raised THEN with_tables
                 ELSE PagesLoop(pages, p + 1, fiscal_year,
                                with_tables \o text_allocations.allocations)
         IN  extend(allocations \o TablesLoop(pages[p].tables, 1, fiscal_year),
                    extract_text_allocations(pages[p].text, fiscal_year))

\* a PDF is the sequence of its pages, a page [text, tables], a table a
\* sequence of rows, a row a sequence of cell strings
extract_budget_tables_from_pdf(pages, fiscal_year) ==
    PagesLoop(pages, 1, fiscal_year, <<>>)

(***************************************************************************)
(* BudgetScraper: a table row of a department page is a dict, modelled as  *)
(* the sequence of its [key, value] items in header order                  *)
(***************************************************************************)
budget_youth_justice_keywords ==
    << "youth justice", "youth detention", "cleveland youth detention",
       "west moreton youth detention", "youth crime", "community youth justice",
       "supervised community accommodation", "youth engagement",
       "restorative justice" >>

\* the literal list of budget_scraper.py line 131
budget_detention_words == << "detention", "cleveland", "west moreton" >>

\* the literal list of budget_scraper.py line 151
program_columns == << "program", "service", "initiative", "description" >>

RECURSIVE JoinValuesLower(_, _)
\* ' '.join(str(v).lower() for v in row.values()), from item i on
JoinValuesLower(row, i) ==
    IF i > Len(row) THEN ""
    ELSE lower(row[i].value) \o (IF i < Len(row) THEN " " ELSE "")
           \o JoinValuesLower(row, i + 1)

RECURSIVE DictItems(_, _)
DictItems(row, i) ==
    IF i > Len(row) THEN ""
    ELSE "'" \o row[i].key \o "': '" \o row[i].value \o "'"
           \o (IF i < Len(row) THEN ", " ELSE "") \o DictItems(row, i + 1)

\* str(row) of a dict of strings
DictStr(row) == "{" \o DictItems(row, 1) \o "}"

\* BudgetScraper._extract_amount: [kind |-> "amount", amount |-> ...], None or Raise
extract_amount(row) ==
    LET hits == {i \in 1..Len(row) : Len(AmountMatches(row[i].value, 1)) > 0}
    IN  IF hits = {} THEN None
        ELSE LET value      == row[Least(hits)].value
                 amount_str == StripCommas(AmountMatches(value, 1)[1].str)
                 amount     == ParseFloat(amount_str)
                 vl         == lower(value)
             IN  IF FloatRaises(amount_str) THEN Raise
                 ELSE [ kind   |-> "amount",
                        amount |-> IF Contains(vl, "million") \/ Contains(vl, "m")
                                   THEN TimesThousand(amount, 1000)
                                   ELSE IF Contains(vl, "thousand") \/ Contains(vl, "k")
                                   THEN TimesThousand(amount, 1)
                                   ELSE amount ]

\* the body of the row loop of _scrape_department_page (lines 84-97): the
\* item appended to results, None when the row is passed over, Raise when
\* _extract_amount raises
scrape_department_row(url, row) ==
    IF ~AnyKeyword(budget_youth_justice_keywords, JoinValuesLower(row, 1)) THEN None
    ELSE LET append(amount) ==
                 IF amount = Raise THEN Raise
                 ELSE IF amount = None \/ amount.amount = Zero THEN None
                 ELSE [ kind |-> "item", source |-> url, data |-> row,
                        amount |-> amount.amount ]
         IN  append(extract_amount(row))

\* re.match(r'^[\d\$,\.]+$', str(value).strip())
is_numeric_cell(value) ==
    LET v == strip(value)
    IN  /\ v # ""
        /\ \A i \in 1..Len(v) : IsDigit(At(v, i)) \/ At(v, i) \in {"$", ",", "."}

\* BudgetScraper._extract_program_name
budget_extract_program_name(row) ==
    LET named == {k \in 1..Len(program_columns) :
                     \E i \in 1..Len(row) : row[i].key = program_columns[k]}
        texts == {i \in 1..Len(row) : ~is_numeric_cell(row[i].value)}
    IN  IF named # {}
        THEN LET key == program_columns[Least(named)]
             IN  row[Greatest({i \in 1..Len(row) : row[i].key = key})].value
        ELSE IF texts # {} THEN row[Least(texts)].value
        ELSE "Unknown Program"

\* the allocation parse_youth_justice_allocations builds from one item that
\* has 'data' (lines 127-144)
parse_item(item) ==
    [ kind            |-> "allocation",
      fiscal_year     |-> "2024-25",
      department      |-> "Department of Youth Justice",
      program         |-> budget_extract_program_name(item.data),
      category        |-> IF AnyKeyword(budget_detention_words, lower(DictStr(item.data)))
                          THEN "detention" ELSE "community",
      amount          |-> item.amount,
      description     |-> DictStr(item.data),
      source_url      |-> item.source,
      source_document |-> "Budget Paper" ]

(***************************************************************************)
(* TreasuryBudgetScraper.calculate_detention_vs_community                  *)
(***************************************************************************)
RECURSIVE SumEveryAmount(_, _, _)
\* a sum that leaves the category test out
SumEveryAmount(allocations, category, i) ==
    IF i > Len(allocations) THEN Zero
    ELSE Plus(allocations[i].amount, SumEveryAmount(allocations, category, i + 1))

RECURSIVE SumAmounts(_, _, _)
\* sum(a['amount'] for a in allocations if a['category'] == category), from
\* item i on
SumAmounts(allocations, category, i) ==
    IF i > Len(allocations) THEN Zero
    ELSE LET rest == SumAmounts(allocations, category, i + 1)
         IN  IF allocations[i].category = category
             THEN Plus(allocations[i].amount, rest) ELSE rest

\* (part / total) * 100, kept as the exact quotient part : total
percentage_of(part, total) == [part |-> part, total |-> total]

\* the percentage of lines 317-318
zero_percentage == [part |-> Zero, total |-> [whole |-> 1, cents |-> 0]]

calculate_detention_vs_community(allocations) ==
    LET detention_total == SumAmounts(allocations, "detention", 1)
        community_total == SumAmounts(allocations, "community", 1)
        total           == Plus(detention_total, community_total)
    IN  [ detention_total      |-> detention_total,
          community_total      |-> community_total,
          total_budget         |-> total,
          detention_percentage |-> IF Less(Zero, total)
                                   THEN percentage_of(detention_total, total)
                                   ELSE zero_percentage,
          community_percentage |-> IF Less(Zero, total)
                                   THEN percentage_of(community_total, total)
                                   ELSE zero_percentage,
          allocation_count     |-> Len(allocations) ]

(***************************************************************************)
(* CostAnalyzer.calculate_spending_split (src/src/analysis/cost_analysis.py)*)
(***************************************************************************)
\* cost_analysis.py line 11
detention_daily_cost == 857

\* cost_analysis.py line 12
community_daily_cost == 41

\* the percentages of lines 34-35: 90.6 and 9.4
known_detention_percentage ==
    [part |-> [whole |-> 906, cents |-> 0], total |-> [whole |-> 1000, cents |-> 0]]

known_community_percentage ==
    [part |-> [whole |-> 94, cents |-> 0], total |-> [whole |-> 1000, cents |-> 0]]

RECURSIVE query_fiscal_year(_, _, _)
\* db.query(BudgetAllocation).filter(BudgetAllocation.fiscal_year == year).all(),
\* from row i of the table on
query_fiscal_year(table, year, i) ==
    IF i > Len(table) THEN <<>>
    ELSE (IF table[i].fiscal_year = year THEN <<table[i]>> ELSE <<>>)
         \o query_fiscal_year(table, year, i + 1)

\* lines 25-44 on the rows the query returned
spending_split_of(rows) ==
    LET detention_total == SumAmounts(rows, "detention", 1)
        community_total == SumAmounts(rows, "community", 1)
        total_budget    == Plus(detention_total, community_total)
    IN  [ detention_total      |-> detention_total,
          community_total      |-> community_total,
          total_budget         |-> total_budget,
          detention_percentage |-> IF Less(Zero, total_budget)
                                   THEN percentage_of(detention_total, total_budget)
                                   ELSE known_detention_percentage,
          community_percentage |-> IF Less(Zero, total_budget)
                                   THEN percentage_of(community_total, total_budget)
                                   ELSE known_community_percentage,
          cost_ratio           |-> [part  |-> detention_daily_cost,
                                    total |-> community_daily_cost] ]

calculate_spending_split(table) ==
    spending_split_of(query_fiscal_year(table, "2024-25", 1))

(***************************************************************************)
(* The writers: save_to_database of both scrapers, through a session of    *)
(* SessionLocal = sessionmaker(autocommit=False, autoflush=False, ...)     *)
(***************************************************************************)
\* database/__init__.py line 18
autoflush == FALSE

\* the column values BudgetAllocation(...) gets in lines 411-420
treasury_row(alloc) ==
    [ fiscal_year     |-> alloc.fiscal_year,
      department      |-> alloc.department,
      program         |-> alloc.program,
      category        |-> alloc.category,
      amount          |-> alloc.amount,
      description     |-> alloc.description,
      source_url      |-> alloc.source_url,
      source_document |-> alloc.source_document ]

\* BudgetAllocation(**alloc)
budget_row(alloc) ==
    [ fiscal_year     |-> alloc.fiscal_year,
      department      |-> alloc.department,
      program         |-> alloc.program,
      category        |-> alloc.category,
      amount          |-> alloc.amount,
      description     |-> alloc.description,
      source_url      |-> alloc.source_url,
      source_document |-> alloc.source_document ]

\* an existence query that filters on the description column instead of program
query_by_description(visible, alloc) ==
    \E i \in 1..Len(visible) :
        /\ visible[i].fiscal_year = alloc.fiscal_year
        /\ visible[i].program = alloc.description
        /\ visible[i].amount = alloc.amount

\* db.query(BudgetAllocation).filter_by(fiscal_year=..., program=...,
\* amount=...).first() is not None, over the rows the SELECT can see
query_existing(visible, alloc) ==
    \E i \in 1..Len(visible) :
        /\ visible[i].fiscal_year = alloc.fiscal_year
        /\ visible[i].program = alloc.program
        /\ visible[i].amount = alloc.amount

RECURSIVE TreasurySaveLoop(_, _, _, _)
\* the loop of lines 402-421 from item i on: the objects db.add()ed so far
\* are flushed before a query only under autoflush
TreasurySaveLoop(table, allocations, i, pending) ==
    IF i > Len(allocations) THEN pending
    ELSE LET visible  == IF autoflush THEN table \o pending ELSE table
             existing == query_existing(visible, allocations[i])
         IN  TreasurySaveLoop(table, allocations, i + 1,
                 IF ~existing THEN Append(pending, treasury_row(allocations[i]))
                 ELSE pending)

\* TreasuryBudgetScraper.save_to_database: the table afterwards; commit_ok
\* tells whether no statement of the session raised (else db.rollback())
treasury_save_to_database(table, allocations, commit_ok) ==
    IF commit_ok THEN table \o TreasurySaveLoop(table, allocations, 1, <<>>)
    ELSE table

RECURSIVE BudgetSaveLoop(_, _)
\* the loop of lines 168-170 from item i on: the objects db.add()ed
BudgetSaveLoop(allocations, i) ==
    IF i > Len(allocations) THEN <<>>
    ELSE <<budget_row(allocations[i])>> \o BudgetSaveLoop(allocations, i + 1)

\* BudgetScraper.save_to_database, its SQLite half (lines 165-178)
budget_save_to_database(table, allocations, commit_ok) ==
    IF commit_ok THEN table \o BudgetSaveLoop(allocations, 1) ELSE table

(***************************************************************************)
(* TreasuryBudgetScraper.scrape_and_save and the budget half of            *)
(* AutomationScheduler.run_all_scrapers                                    *)
(***************************************************************************)
\* lines 351-354
add_metadata(allocation, pdf_info) ==
    [ kind            |-> "allocation",
      fiscal_year     |-> allocation.fiscal_year,
      program         |-> allocation.program,
      category        |-> allocation.category,
      amount          |-> allocation.amount,
      description     |-> allocation.description,
      source_type     |-> allocation.source_type,
      department      |-> pdf_info.department,
      source_url      |-> pdf_info.url,
      source_document |-> pdf_info.title ]

\* The documents behind the URLs that find_budget_pdfs can return.
PdfA ==
    [ url |-> "/sds.pdf", title |-> "Youth Justice SDS", fiscal_year |-> "2024-25",
      document_type |-> "service-delivery-statements", department |-> "youth justice" ]

PdfB ==
    [ url |-> "/capital.pdf", title |-> "Capital Statement", fiscal_year |-> "2023-24",
      document_type |-> "capital-statement", department |-> "Unknown Department" ]

PdfInfos == {PdfA, PdfB}

PdfPages(url) ==
    IF url = "/sds.pdf"
    THEN << [ text   |-> "Youth justice budget. Youth justice early intervention funding 3 million.",
              tables |-> << << <<"Program", "Budget">>,
                               <<"Cleveland Youth Detention Centre", "1.65 million">>,
                               <<"Youth justice funding", "">> >> >> ] >>
    ELSE << [ text   |-> "West Moreton youth detention upgrade",
              tables |-> << << <<"Item", "Cost">>,
                               <<"West Moreton youth detention", "450">>,
                               <<"Youth justice, funding", "">> >> >> ] >>

RECURSIVE MetadataLoop(_, _, _)
\* the loop of lines 351-354 from item i on
MetadataLoop(allocations, i, pdf_info) ==
    IF i > Len(allocations) THEN <<>>
    ELSE <<add_metadata(allocations[i], pdf_info)>>
           \o MetadataLoop(allocations, i + 1, pdf_info)

\* lines 345-354 for one downloaded PDF
pdf_allocations(pdf_info) ==
    MetadataLoop(extract_budget_tables_from_pdf(PdfPages(pdf_info.url),
                                                pdf_info.fiscal_year), 1, pdf_info)

\* pdf_allocations of each document, evaluated once
PdfAllocationsA == pdf_allocations(PdfA)

PdfAllocationsB == pdf_allocations(PdfB)

PdfAllocations(pdf_info) == IF pdf_info = PdfA THEN PdfAllocationsA ELSE PdfAllocationsB

RECURSIVE scrape_until_unavailable(_, _, _)
\* the loop leaving at the first PDF that download_pdf cannot fetch
scrape_until_unavailable(pdf_list, i, unavailable) ==
    IF i > Len(pdf_list) \/ pdf_list[i].url \in unavailable THEN <<>>
    ELSE PdfAllocations(pdf_list[i])
           \o scrape_until_unavailable(pdf_list, i + 1, unavailable)

RECURSIVE ScrapeLoop(_, _, _)
\* the loop of lines 336-356 from item i of pdf_list on: all_allocations;
\* download_pdf returns None for the URLs of unavailable
ScrapeLoop(pdf_list, i, unavailable) ==
    IF i > Len(pdf_list) THEN <<>>
    ELSE (IF pdf_list[i].url \in unavailable THEN <<>> ELSE PdfAllocations(pdf_list[i]))
         \o ScrapeLoop(pdf_list, i + 1, unavailable)

\* The table rows of the department pages that scrape_budget_papers follows.
BudgetRowPlain ==
    << [key |-> "program", value |-> "Youth justice services"],
       [key |-> "2024-25", value |-> "$450"] >>

BudgetRowUnnamed ==
    << [key |-> "program", value |-> ""],
       [key |-> "description", value |-> "Youth detention centre"],
       [key |-> "amount", value |-> "12 million"] >>

BudgetRowNoAmount ==
    << [key |-> "program", value |-> "Restorative justice"],
       [key |-> "amount", value |-> "n/a"] >>

BudgetRowMonthly ==
    << [key |-> "team", value |-> "Youth crime team 12"] >>

BudgetRowComma ==
    << [key |-> "service", value |-> "Youth justice, courts"],
       [key |-> "cost", value |-> "7"] >>

BudgetRowSaving ==
    << [key |-> "program", value |-> "Youth justice savings"],
       [key |-> "change", value |-> "-$12"] >>

DepartmentUrl == "https://budget.qld.gov.au/youth-justice"

\* what one row of a department page becomes on the way through
\* _scrape_department_page and parse_youth_justice_allocations: Raise, None
\* (no item) or the allocation of its item
budget_row_allocation(row) ==
    LET parse(item) == IF item = Raise \/ item = None THEN item ELSE parse_item(item)
    IN  parse(scrape_department_row(DepartmentUrl, row))

\* budget_row_allocation of each row, evaluated once
BudgetRows ==
    << BudgetRowPlain, BudgetRowUnnamed, BudgetRowNoAmount, BudgetRowMonthly,
       BudgetRowComma, BudgetRowSaving >>

BudgetRowAllocations ==
    << budget_row_allocation(BudgetRowPlain), budget_row_allocation(BudgetRowUnnamed),
       budget_row_allocation(BudgetRowNoAmount), budget_row_allocation(BudgetRowMonthly),
       budget_row_allocation(BudgetRowComma), budget_row_allocation(BudgetRowSaving) >>

BudgetRowDescriptions ==
    << DictStr(BudgetRowPlain), DictStr(BudgetRowUnnamed), DictStr(BudgetRowNoAmount),
       DictStr(BudgetRowMonthly), DictStr(BudgetRowComma), DictStr(BudgetRowSaving) >>

RECURSIVE BudgetLoop(_, _, _)
\* scrape_budget_papers followed by parse_youth_justice_allocations over the
\* rows of the pages (given by their numbers in BudgetRows), from row i on,
\* acc being the allocations so far: raised when _extract_amount raises (the
\* exception leaves scrape_budget_papers), else the allocations
BudgetLoop(rows, i, acc) ==
    IF i > Len(rows) THEN [raised |-> FALSE, allocations |-> acc]
    ELSE LET append(allocation) ==
                 IF allocation = Raise THEN [raised |-> TRUE, allocations |-> <<>>]
                 ELSE BudgetLoop(rows, i + 1,
                                 IF allocation = None THEN acc
                                 ELSE Append(acc, allocation))
         IN  append(BudgetRowAllocations[rows[i]])

(***************************************************************************)
(* ParliamentQoNScraper._extract_statistics                                *)
(* (src/src/scrapers/parliament_qon_scraper.py)                            *)
(* A match object is a record: first is match.start() + 1, after is        *)
(* match.end() + 1, group1 and group2 are the groups ("" for a group that  *)
(* did not take part).                                                     *)
(***************************************************************************)
\* the position after \d+(?:\.\d+)? matched greedily from i
DecimalEnd(s, i) ==
    LET frac(j) == IF At(s, j) = "." /\ IsDigit(At(s, j + 1))
                   THEN DigitRunEnd(s, j + 1) ELSE j
    IN  frac(DigitRunEnd(s, i))

\* the first position >= i that holds a digit (dollar = FALSE) or a "$"
\* (dollar = TRUE), Len(s) + 1 when none does: the positions before it are
\* those at which the scan of a pattern that begins so fails at once
next_candidate(s, i, dollar) ==
    LET found == {j \in i..Len(s) : IF dollar THEN At(s, j) = "$" ELSE IsDigit(At(s, j))}
    IN  IF found = {} THEN Len(s) + 1 ELSE Least(found)

\* the match object of a match over [first, after)
match_object(s, first, after, group1, group2) ==
    [first |-> first, after |-> after, group1 |-> group1, group2 |-> group2]

RECURSIVE PercentageMatches(_, _)
\* re.finditer(r'(\d+(?:\.\d+)?)\s*%', s) from position i on
PercentageMatches(s, i) ==
    LET try(e, p) ==
            IF At(s, p) = "%"
            THEN <<match_object(s, i, p + 1, SubSeq(s, i, e - 1), "")>>
                     \o PercentageMatches(s, p + 1)
            ELSE PercentageMatches(s, i + 1)
        number(e) == try(e, SkipSpaces(s, e))
    IN  IF i > Len(s) THEN <<>>
        ELSE IF IsDigit(At(s, i)) THEN number(DecimalEnd(s, i))
        ELSE PercentageMatches(s, next_candidate(s, i, FALSE))

\* (?:(million|billion|thousand))? at p: group 2, "" when it took no part
multiplier_at(s, p) ==
    IF StartsWithAt(s, p, "million") THEN "million"
    ELSE IF StartsWithAt(s, p, "billion") THEN "billion"
    ELSE IF StartsWithAt(s, p, "thousand") THEN "thousand"
    ELSE ""

RECURSIVE StatisticAmountMatches(_, _)
\* re.finditer(r'\$\s*([\d,]+(?:\.\d+)?)\s*(?:(million|billion|thousand))?', s)
\* from position i on
StatisticAmountMatches(s, i) ==
    LET close(start, e, after, word) ==
            <<match_object(s, i, after, SubSeq(s, start, e - 1), word)>>
                \o StatisticAmountMatches(s, after)
        suffix(start, e, p, word) == close(start, e, p + Len(word), word)
        spaces(start, e, p) == suffix(start, e, p, multiplier_at(s, p))
        number(start, e) == spaces(start, e, SkipSpaces(s, e))
        token(start) ==
            IF IsNumChar(At(s, start)) THEN number(start, NumberEnd(s, start))
            ELSE StatisticAmountMatches(s, i + 1)
    IN  IF i > Len(s) THEN <<>>
        ELSE IF At(s, i) = "$" THEN token(SkipSpaces(s, i + 1))
        ELSE StatisticAmountMatches(s, next_candidate(s, i, TRUE))

\* (?:times|x) at p: the alternative taken, "" when none is
times_at(s, p) ==
    IF StartsWithAt(s, p, "times") THEN "times"
    ELSE IF StartsWithAt(s, p, "x") THEN "x"
    ELSE ""

\* (?:higher|more|greater) at p: the alternative taken, "" when none is
comparison_at(s, p) ==
    IF StartsWithAt(s, p, "higher") THEN "higher"
    ELSE IF StartsWithAt(s, p, "more") THEN "more"
    ELSE IF StartsWithAt(s, p, "greater") THEN "greater"
    ELSE ""

RECURSIVE rate_without_comparison(_, _)
\* the rate pattern cut after (?:times|x): '<number> times' is a rate
rate_without_comparison(s, i) ==
    LET times(e, p, word) ==
            IF word # ""
            THEN <<match_object(s, i, p + Len(word), SubSeq(s, i, e - 1), "")>>
                     \o rate_without_comparison(s, p + Len(word))
            ELSE rate_without_comparison(s, i + 1)
        spaces(e, p) == times(e, p, times_at(s, p))
        number(e) == spaces(e, SkipSpaces(s, e))
    IN  IF i > Len(s) THEN <<>>
        ELSE IF IsDigit(At(s, i)) THEN number(DecimalEnd(s, i))
        ELSE rate_without_comparison(s, next_candidate(s, i, FALSE))

RECURSIVE RateMatches(_, _)
\* re.finditer(r'(\d+(?:\.\d+)?)\s*(?:times|x)\s*(?:higher|more|greater)', s)
\* from position i on
RateMatches(s, i) ==
    LET close(e, q, word) ==
            IF word # ""
            THEN <<match_object(s, i, q + Len(word), SubSeq(s, i, e - 1), "")>>
                     \o RateMatches(s, q + Len(word))
            ELSE RateMatches(s, i + 1)
        compare(e, q) == close(e, q, comparison_at(s, q))
        times(e, p, word) ==
            IF word # "" THEN compare(e, SkipSpaces(s, p + Len(word)))
            ELSE RateMatches(s, i + 1)
        spaces(e, p) == times(e, p, times_at(s, p))
        number(e) == spaces(e, SkipSpaces(s, e))
    IN  IF i > Len(s) THEN <<>>
        ELSE IF IsDigit(At(s, i)) THEN number(DecimalEnd(s, i))
        ELSE RateMatches(s, next_candidate(s, i, FALSE))

\* text[max(0, match.start() - 50):min(len(text), match.end() + 50)]
context_slice(text, match) ==
    SubSeq(text, IF match.first - 50 > 1 THEN match.first - 50 ELSE 1,
                 IF match.after + 49 < Len(text) THEN match.after + 49 ELSE Len(text))

\* match.group(0)
group0(text, match) == SubSeq(text, match.first, match.after - 1)

\* the dict appended for a match of the percentage pattern
percentage_statistic(text, match) ==
    [ type    |-> "percentage",
      value   |-> ParseFloat(match.group1),
      context |-> strip(context_slice(text, match)) ]

\* amount after the multiplications of lines 243-249
multiplied(amount, multiplier) ==
    IF multiplier = "billion" THEN TimesThousand(amount, 1000000)
    ELSE IF multiplier = "million" THEN TimesThousand(amount, 1000)
    ELSE IF multiplier = "thousand" THEN TimesThousand(amount, 1)
    ELSE amount

\* the dict appended for a match of the amount pattern whose float() succeeds
amount_statistic(text, match) ==
    [ type    |-> "amount",
      value   |-> multiplied(ParseFloat(StripCommas(match.group1)), match.group2),
      context |-> strip(context_slice(text, match)) ]

\* the dict appended for a match of the rate pattern
rate_statistic(text, match) ==
    [ type    |-> "rate",
      value   |-> ParseFloat(match.group1),
      context |-> group0(text, match) ]

RECURSIVE PercentageLoop(_, _, _)
\* the loop of lines 223-233
PercentageLoop(text, matches, i) ==
    IF i > Len(matches) THEN <<>>
    ELSE <<percentage_statistic(text, matches[i])>>
             \o PercentageLoop(text, matches, i + 1)

RECURSIVE AmountLoop(_, _, _)
\* the loop of lines 237-259, up to the first match whose float() raises
AmountLoop(text, matches, i) ==
    IF i > Len(matches) \/ FloatRaises(StripCommas(matches[i].group1)) THEN <<>>
    ELSE <<amount_statistic(text, matches[i])>> \o AmountLoop(text, matches, i + 1)

RECURSIVE RateLoop(_, _, _)
\* the loop of lines 263-268
RateLoop(text, matches, i) ==
    IF i > Len(matches) THEN <<>>
    ELSE <<rate_statistic(text, matches[i])>> \o RateLoop(text, matches, i + 1)

\* whether float() of line 238 raises ValueError for one of the matches
amount_raises(matches) ==
    \E i \in 1..Len(matches) : FloatRaises(StripCommas(matches[i].group1))

\* self._extract_statistics(text): the list returned, or raised when the
\* ValueError of line 238 leaves the method
extract_statistics(text) ==
    LET collect(amount_matches) ==
            IF amount_raises(amount_matches)
            THEN [raised |-> TRUE, statistics |-> <<>>]
            ELSE [ raised     |-> FALSE,
                   statistics |->
                       PercentageLoop(text, PercentageMatches(text, 1), 1)
                         \o AmountLoop(text, amount_matches, 1)
                         \o RateLoop(text, RateMatches(text, 1), 1) ]
    IN  collect(StatisticAmountMatches(text, 1))

(***************************************************************************)
(* Bounds and input sets                                                   *)
(***************************************************************************)
\* the longest pdf_list, and the most table rows, of one run
MaxDocs == 2

\* the number of runs of the scrapers
MaxRuns == 2

\* the longest list handed to calculate_detention_vs_community
MaxAllocations == 3

SeqsUpTo(S, n) == UNION {[1..k -> S] : k \in 0..n}

FiscalYears == {"2024-25", "2023-24"}

\* a passage of 52 characters
Passage == "the regional services and the supervised programmes "

\* a sentence of more than 500 characters
LongSentence ==
    "Youth justice funding of 3 million covers "
        \o Passage \o Passage \o Passage \o Passage \o Passage
        \o Passage \o Passage \o Passage \o Passage \o "and the rest"

Segments ==
    { LongSentence,
      "Youth justice services 450",
      "Cleveland Youth Detention Centre $1.65 million",
      "Youth detention and community supervision 900 thousand",
      "Youth detention diversion 2 million",
      "West Moreton youth detention 450",
      "Youth justice 900 thousand and 2 million",
      "Youth justice funding",
      "Youth justice, funding",
      "Youth justice, more funding",
      "Youth justice savings -450",
      "Youth detention centre and detention diversion 5",
      "Funding for Youth Justice Conferencing program 12",
      "Youth justice            funding 5",
      "Youth justice early intervention funding is 3 million. Budget 2024",
      "Capital works 12 million",
      "Youth detention custody and remand 0",
      "Youth justice funding of $1.65 million was announced" }

\* what precedes, holds and follows the statistic of an answer text
StatisticLeads ==
    { "",
      "Indigenous youth are ",
      "In the last financial year the department reported that the figure was " }

StatisticTokens ==
    { "66%", "66 %", "12.5%", "5% and 7.25%",
      "$2 million", "$1 billion", "$450 thousand", "$1,200.50", "$ 75", "$5 m",
      "$3k", "$,",
      "22 times higher", "2.5x more", "3 times  greater", "22 times",
      "66% or $2 million, 4 times more" }

StatisticTails ==
    { "",
      " of detainees",
      " than the population rate",
      " when it is compared with every other region of the State of Queensland" }

\* the question and answer texts handed to _extract_statistics
StatisticTexts ==
    { lead \o token \o tail :
          lead \in StatisticLeads, token \in StatisticTokens, tail \in StatisticTails }

\* the rows (numbers in BudgetRows) the department pages of the runs hold
PipelineRows == {1, 2, 3}

Categories == {"detention", "community", "unknown"}

SampleAmounts == {[whole |-> 50, cents |-> 0], [whole |-> 100, cents |-> 0],
                  [whole |-> 1000, cents |-> 0]}

(***************************************************************************)
(* State                                                                   *)
(***************************************************************************)
VARIABLES
    budget_allocations,  \* the committed rows of table budget_allocations
    last_run,            \* what the last run of a scraper was given and did
    run_count,           \* the number of runs so far
    segment,             \* a table row's or page's text
    department_row,      \* a table row of a department page
    segment_year,        \* the fiscal year handed in with the segment
    result,              \* what the operation applied to the segment gave
    given_allocations,   \* a list handed to calculate_detention_vs_community
    summary,             \* what it returned for it
    fallback,            \* the percentage pair the caller wants for a zero total
    spending_split,      \* what calculate_spending_split returned
    fetch,               \* a BaseScraper.get_page call: where it is and what it did
    temp_pdfs,           \* a TreasuryBudgetScraper's pdf_cache and the temporary files
    parliament,          \* table parliamentary_documents and the last batch saved
    automation           \* what the runs of AutomationScheduler.run_all_scrapers did

vars ==
    <<budget_allocations, last_run, run_count, segment, department_row,
      segment_year, result, given_allocations, summary, fallback, spending_split,
      fetch, temp_pdfs, parliament, automation>>

\* the state outside the budget pipeline
service_vars == <<fetch, temp_pdfs, parliament, automation>>

\* no get_page call under way
NoFetch ==
    [ pc |-> "idle", url |-> "", attempt |-> 0, requests |-> <<>>, waits |-> <<>>,
      polite |-> 0, returned |-> "pending" ]

\* a new TreasuryBudgetScraper: self.pdf_cache = {}, no temporary file yet
NoTempPdfs ==
    [ pdf_cache |-> {}, files |-> {}, created |-> 0, calls |-> 0, last_op |-> "",
      returned |-> 0, run_created |-> {}, raised |-> FALSE, commit_failed |-> FALSE ]

\* an empty table parliamentary_documents, nothing saved yet
NoParliament ==
    [ rows |-> <<>>, scraper |-> "", batch |-> <<>>, saves |-> 0, rolled_back |-> FALSE ]

\* an AutomationScheduler that has not run yet
NoAutomation ==
    [ runs |-> 0, sample_data |-> FALSE, new_documents |-> <<>>, alert_sent |-> FALSE,
      error_alert |-> FALSE, inserted |-> 0, found_only_stored |-> FALSE ]

IdleServices ==
    /\ fetch = NoFetch
    /\ temp_pdfs = NoTempPdfs
    /\ parliament = NoParliament
    /\ automation = NoAutomation

NoRun ==
    [ scraper |-> "none", documents |-> <<>>, committed |-> FALSE,
      rows_before |-> 0, repeats |-> FALSE, candidates |-> <<>> ]

NoResult ==
    [ op |-> "input", label |-> "", outcome |-> "", candidates |-> <<>>, saved |-> FALSE ]

NoSummary == [allocation_count |-> -1]

pipeline_vars == <<budget_allocations, last_run, run_count>>

segment_vars == <<segment, department_row, segment_year, result>>

\* spending_split before calculate_spending_split has run
NoSplit ==
    [ detention_total      |-> Zero,
      community_total      |-> Zero,
      total_budget         |-> [whole |-> -1, cents |-> 0],
      detention_percentage |-> zero_percentage,
      community_percentage |-> zero_percentage,
      cost_ratio           |-> [part |-> 0, total |-> 1] ]

\* fallback where no caller supplies one
NoFallback == [detention |-> zero_percentage, community |-> zero_percentage]

aggregate_vars == <<given_allocations, summary, fallback, spending_split>>

budget_vars == <<pipeline_vars, segment_vars, aggregate_vars>>

(***************************************************************************)
(* Spec: runs of the two scrapers against one database                     *)
(***************************************************************************)
Init ==
    /\ budget_allocations = <<>>
    /\ last_run = NoRun
    /\ run_count = 0
    /\ segment = ""
    /\ department_row = <<>>
    /\ segment_year = ""
    /\ result = NoResult
    /\ given_allocations = <<>>
    /\ summary = NoSummary
    /\ fallback = NoFallback
    /\ spending_split = NoSplit
    /\ IdleServices

\* what a run read: the url of each PDF scraped, "" for one not downloaded
RECURSIVE ReadUrls(_, _, _)
ReadUrls(pdf_list, i, unavailable) ==
    IF i > Len(pdf_list) THEN <<>>
    ELSE <<IF pdf_list[i].url \in unavailable THEN "" ELSE pdf_list[i].url>>
             \o ReadUrls(pdf_list, i + 1, unavailable)

\* what a run read: the text of each row the department pages held
RECURSIVE RowDescriptions(_, _)
RowDescriptions(rows, i) ==
    IF i > Len(rows) THEN <<>>
    ELSE <<BudgetRowDescriptions[rows[i]]>> \o RowDescriptions(rows, i + 1)

\* what a run leaves in last_run, given what the previous run left
run_record(scraper, documents, committed, candidates, table, previous) ==
    [ scraper     |-> scraper,
      documents   |-> documents,
      committed   |-> committed,
      rows_before |-> Len(table),
      repeats     |-> /\ previous.scraper = scraper
                      /\ previous.committed /\ committed
                      /\ previous.documents = documents,
      candidates  |-> candidates ]

RECURSIVE by_year(_, _, _)
\* by_year[year] of lines 360-366: the items of all_allocations, from item i
\* on, whose fiscal_year is year
by_year(all_allocations, year, i) ==
    IF i > Len(all_allocations) THEN <<>>
    ELSE (IF all_allocations[i].fiscal_year = year THEN <<all_allocations[i]>>
          ELSE <<>>)
         \o by_year(all_allocations, year, i + 1)

\* the summary of a fiscal year that scrape_and_save logs (lines 369-374) and
\* hands to save_raw_data (lines 383-384)
year_summary(all_allocations, year) ==
    calculate_detention_vs_community(by_year(all_allocations, year, 1))

\* the N of 'Saved N budget allocations to database' (line 424), which is
\* also the length of the list scrape_and_save returns (line 395)
reported_saved(run) == Len(run.candidates)

\* TreasuryBudgetScraper().scrape_and_save(...) on a fresh instance, handed
\* the allocations of the PDFs of the run
TreasurySave(all_allocations, documents, commit_ok) ==
    /\ budget_allocations' =
           treasury_save_to_database(budget_allocations, all_allocations, commit_ok)
    /\ last_run' = run_record("treasury", documents, commit_ok, all_allocations,
                              budget_allocations, last_run)

TreasuryScrapeAndSave ==
    \E pdf_list \in SeqsUpTo(PdfInfos, MaxDocs), commit_ok \in BOOLEAN,
       unavailable \in SUBSET {pdf_info.url : pdf_info \in PdfInfos} :
        /\ run_count < MaxRuns
        /\ run_count' = run_count + 1
        /\ TreasurySave(ScrapeLoop(pdf_list, 1, unavailable),
                        ReadUrls(pdf_list, 1, unavailable), commit_ok)
        /\ UNCHANGED <<service_vars, segment_vars, aggregate_vars>>

\* scheduler.py lines 45-48: scrape_budget_papers, parse_youth_justice_allocations,
\* save_to_database of a fresh BudgetScraper; an exception of the scrape
\* leaves run_all_scrapers before anything is saved
BudgetSave(parsed, documents, commit_ok) ==
    /\ budget_allocations' =
           IF parsed.raised THEN budget_allocations
           ELSE budget_save_to_database(budget_allocations, parsed.allocations,
                                        commit_ok)
    /\ last_run' = run_record("budget", documents, commit_ok /\ ~parsed.raised,
                              parsed.allocations, budget_allocations, last_run)

BudgetScraperRun ==
    \E rows \in SeqsUpTo(PipelineRows, MaxDocs), commit_ok \in BOOLEAN :
        /\ run_count < MaxRuns
        /\ run_count' = run_count + 1
        /\ BudgetSave(BudgetLoop(rows, 1, <<>>), RowDescriptions(rows, 1), commit_ok)
        /\ UNCHANGED <<service_vars, segment_vars, aggregate_vars>>

Next == TreasuryScrapeAndSave \/ BudgetScraperRun

Spec == Init /\ [][Next]_vars

(***************************************************************************)
(* SpecSegment: one text segment, or one row of a department page, taken   *)
(* through the operations of the scrapers and then through the writer      *)
(***************************************************************************)
InitSegment ==
    /\ budget_allocations = <<>>
    /\ last_run = NoRun
    /\ run_count = 0
    /\ segment \in Segments
    /\ department_row \in {BudgetRows[r] : r \in 1..Len(BudgetRows)}
    /\ segment_year \in FiscalYears
    /\ result = NoResult
    /\ given_allocations = <<>>
    /\ summary = NoSummary
    /\ fallback = NoFallback
    /\ spending_split = NoSplit
    /\ IdleServices

\* what a call that returns an allocation, None or raises leaves in result
extraction_result(op, value) ==
    [ op         |-> op,
      label      |-> "",
      outcome    |-> value.kind,
      candidates |-> IF value.kind = "allocation" THEN <<value>> ELSE <<>>,
      saved      |-> FALSE ]

\* what a call that returns a list of allocations or raises leaves in result
list_result(op, value) ==
    [ op         |-> op,
      label      |-> "",
      outcome    |-> IF value.raised THEN "raise" ELSE "list",
      candidates |-> value.allocations,
      saved      |-> FALSE ]

\* self._categorize_program(segment)
CategorizeProgram ==
    /\ result.op = "input"
    /\ result' = [NoResult EXCEPT !.op = "categorize",
                                  !.label = categorize_program(segment)]
    /\ UNCHANGED <<service_vars, pipeline_vars, segment, department_row, segment_year, aggregate_vars>>

\* self._extract_program_name(segment)
ExtractProgramName ==
    /\ result.op = "input"
    /\ result' = [NoResult EXCEPT !.op = "program",
                                  !.label = extract_program_name(segment)]
    /\ UNCHANGED <<service_vars, pipeline_vars, segment, department_row, segment_year, aggregate_vars>>

\* self._extract_allocation_from_row(segment, segment_year)
ExtractAllocationFromRow ==
    /\ result.op = "input"
    /\ result' = extraction_result("row",
                      extract_allocation_from_row(segment, segment_year))
    /\ UNCHANGED <<service_vars, pipeline_vars, segment, department_row, segment_year, aggregate_vars>>

\* self._extract_text_allocations(segment, segment_year)
ExtractTextAllocations ==
    /\ result.op = "input"
    /\ result' = list_result("text", extract_text_allocations(segment, segment_year))
    /\ UNCHANGED <<service_vars, pipeline_vars, segment, department_row, segment_year, aggregate_vars>>

\* scrape_budget_papers(segment_year) reaching a department page that holds
\* department_row, then parse_youth_justice_allocations: the year names the
\* pages to fetch (lines 27-31) and is not part of the items of a
\* department page
ScrapeDepartmentRow ==
    /\ result.op = "input"
    /\ result' = extraction_result("budget", budget_row_allocation(department_row))
    /\ UNCHANGED <<service_vars, pipeline_vars, segment, department_row, segment_year, aggregate_vars>>

\* a PDF of three pages that holds text as the second data row of its first
\* table and as the second sentence of its second page
DocumentAround(text) ==
    << [ text   |-> "Youth justice budget",
         tables |-> << << <<"Program", "Budget">>,
                          <<"Youth bail support", "450">>,
                          <<text>>,
                          <<"Youth court services", "900">> >>,
                       << <<"Item", "Cost">>,
                          <<"Youth diversion", "12">> >> >> ],
       [ text   |-> "Youth justice budget. " \o text
                        \o ". Youth crime prevention 3 million",
         tables |-> <<>> ],
       [ text   |-> "Youth justice",
         tables |-> << << <<"Item", "Cost">>,
                          <<"Youth engagement", "7">> >> >> ] >>

\* self.extract_budget_tables_from_pdf(pdf_path, segment_year) for the PDF
\* DocumentAround(segment)
ExtractBudgetTablesFromPdf ==
    /\ result.op = "input"
    /\ result' = list_result("document",
                      [ raised      |-> FALSE,
                        allocations |-> extract_budget_tables_from_pdf(
                                            DocumentAround(segment), segment_year) ])
    /\ UNCHANGED <<service_vars, pipeline_vars, segment, department_row, segment_year, aggregate_vars>>

\* a table whose first row names the columns and whose first data row is text
TableAround(text) ==
    << <<"Program", "Amount">>,
       <<text>>,
       <<"Youth court services", "900">> >>

\* self._process_budget_table(table, context_text, segment_year) for the
\* table TableAround(segment)
ProcessBudgetTable ==
    /\ result.op = "input"
    /\ result' = list_result("table",
                      [ raised      |-> FALSE,
                        allocations |-> process_budget_table(TableAround(segment),
                                                             segment_year) ])
    /\ UNCHANGED <<service_vars, pipeline_vars, segment, department_row, segment_year, aggregate_vars>>

\* save_to_database of the scraper that made the candidates, committing
SaveCandidates ==
    /\ result.op \in {"row", "text", "budget", "document", "table"}
    /\ ~result.saved
    /\ budget_allocations' =
           IF result.op = "budget"
           THEN budget_save_to_database(budget_allocations, result.candidates, TRUE)
           ELSE treasury_save_to_database(budget_allocations,
                    MetadataLoop(result.candidates, 1, PdfA), TRUE)
    /\ result' = [result EXCEPT !.saved = TRUE]
    /\ UNCHANGED <<service_vars, last_run, run_count, segment, department_row, segment_year,
                   aggregate_vars>>

NextSegment ==
    \/ CategorizeProgram
    \/ ExtractProgramName
    \/ ExtractAllocationFromRow
    \/ ExtractTextAllocations
    \/ ScrapeDepartmentRow
    \/ ExtractBudgetTablesFromPdf
    \/ ProcessBudgetTable
    \/ SaveCandidates

SpecSegment == InitSegment /\ [][NextSegment]_vars

(***************************************************************************)
(* SpecStatistics: one question and answer text through                    *)
(* ParliamentQoNScraper._extract_statistics                                *)
(***************************************************************************)
InitStatistics ==
    /\ budget_allocations = <<>>
    /\ last_run = NoRun
    /\ run_count = 0
    /\ segment \in StatisticTexts
    /\ department_row = <<>>
    /\ segment_year = ""
    /\ result = NoResult
    /\ given_allocations = <<>>
    /\ summary = NoSummary
    /\ fallback = NoFallback
    /\ spending_split = NoSplit
    /\ IdleServices

\* what _extract_statistics leaves in result: the list it returned
statistics_result(value) ==
    [ op         |-> "statistics",
      label      |-> "",
      outcome    |-> IF value.raised THEN "raise" ELSE "list",
      candidates |-> value.statistics,
      saved      |-> FALSE ]

\* self._extract_statistics(segment)
ExtractStatistics ==
    /\ result.op = "input"
    /\ result' = statistics_result(extract_statistics(segment))
    /\ UNCHANGED <<service_vars, pipeline_vars, segment, department_row, segment_year, aggregate_vars>>

NextStatistics == ExtractStatistics

SpecStatistics == InitStatistics /\ [][NextStatistics]_vars

(***************************************************************************)
(* SpecAggregate: calculate_detention_vs_community on a list of            *)
(* allocations of one fiscal year, and calculate_spending_split on the     *)
(* table that holds the list as the rows of one fiscal year                *)
(***************************************************************************)
AllocationSamples == [category : Categories, amount : SampleAmounts]

\* the percentage pairs a caller may want for a fiscal year without amounts
FallbackPairs ==
    { NoFallback,
      [detention |-> known_detention_percentage,
       community |-> known_community_percentage],
      [detention |-> [part |-> [whole |-> 1, cents |-> 0],
                      total |-> [whole |-> 2, cents |-> 0]],
       community |-> [part |-> [whole |-> 1, cents |-> 0],
                      total |-> [whole |-> 2, cents |-> 0]]] }

RECURSIVE StoredRows(_, _, _)
\* the table that holds the given allocations, from item i on, as rows of
\* one fiscal year
StoredRows(allocations, year, i) ==
    IF i > Len(allocations) THEN <<>>
    ELSE << [ fiscal_year     |-> year,
              department      |-> "Department of Youth Justice",
              program         |-> "Program",
              category        |-> allocations[i].category,
              amount          |-> allocations[i].amount,
              description     |-> "",
              source_url      |-> "",
              source_document |-> "" ] >>
           \o StoredRows(allocations, year, i + 1)

InitAggregate ==
    /\ given_allocations \in SeqsUpTo(AllocationSamples, MaxAllocations)
    /\ \E year \in FiscalYears :
           budget_allocations = StoredRows(given_allocations, year, 1)
    /\ fallback \in FallbackPairs
    /\ spending_split = NoSplit
    /\ IdleServices
    /\ last_run = NoRun
    /\ run_count = 0
    /\ segment = ""
    /\ department_row = <<>>
    /\ segment_year = ""
    /\ result = NoResult
    /\ summary = NoSummary

\* self.calculate_detention_vs_community(given_allocations)
CalculateDetentionVsCommunity ==
    /\ summary.allocation_count < 0
    /\ summary' = calculate_detention_vs_community(given_allocations)
    /\ UNCHANGED <<service_vars, pipeline_vars, segment_vars, given_allocations, fallback,
                   spending_split>>

\* CostAnalyzer().calculate_spending_split() against the table
CalculateSpendingSplit ==
    /\ spending_split.total_budget.whole < 0
    /\ spending_split' = calculate_spending_split(budget_allocations)
    /\ UNCHANGED <<service_vars, pipeline_vars, segment_vars, given_allocations, fallback, summary>>

NextAggregate == CalculateDetentionVsCommunity \/ CalculateSpendingSplit

SpecAggregate == InitAggregate /\ [][NextAggregate]_vars

(***************************************************************************)
(* BaseScraper.get_page: the retry loop, one step per statement            *)
(***************************************************************************)
max_retries == 3

retry_delay == 1

\* the pages asked for
FetchUrls == {"https://budget.qld.gov.au/", "https://www.treasury.qld.gov.au/"}

\* what self.session.get(url) gives: a response with a status code, or an
\* exception; TypeError stands for one that is not a RequestException
GetOutcomes ==
    {[status |-> code, raised |-> ""] : code \in {200, 404, 503}}
        \cup {[status |-> 0, raised |-> name] :
                 name \in {"ConnectionError", "Timeout", "TypeError"}}

\* time.sleep(random.uniform(0.5, 2.0)) in milliseconds
PoliteDelays == {500, 1250, 2000}

\* except requests.exceptions.RequestException
is_request_exception(name) == name \in {"ConnectionError", "Timeout", "HTTPError"}

\* response.raise_for_status()
raise_for_status(response) ==
    IF response.status >= 400 /\ response.status < 600
    THEN [response EXCEPT !.raised = "HTTPError"]
    ELSE response

\* the handler that waits after the last failure too before it gives up
wait_after_every_failure(call) ==
    IF call.attempt < max_retries - 1
    THEN [call EXCEPT !.waits = Append(@, retry_delay * (call.attempt + 1)),
                      !.attempt = @ + 1,
                      !.pc = "get"]
    ELSE [call EXCEPT !.waits = Append(@, retry_delay * (call.attempt + 1)),
                      !.returned = "None", !.pc = "done"]

\* the except block and the step of the for loop after it
handle_request_exception(call) ==
    IF call.attempt < max_retries - 1
    THEN [call EXCEPT !.waits = Append(@, retry_delay * (call.attempt + 1)),
                      !.attempt = @ + 1,
                      !.pc = "get"]
    ELSE [call EXCEPT !.returned = "None", !.pc = "done"]

InitGetPage ==
    /\ budget_allocations = <<>>
    /\ last_run = NoRun
    /\ run_count = 0
    /\ segment = ""
    /\ department_row = <<>>
    /\ segment_year = ""
    /\ result = NoResult
    /\ given_allocations = <<>>
    /\ summary = NoSummary
    /\ fallback = NoFallback
    /\ spending_split = NoSplit
    /\ fetch = NoFetch
    /\ temp_pdfs = NoTempPdfs
    /\ parliament = NoParliament
    /\ automation = NoAutomation

\* self.get_page(url): for attempt in range(max_retries)
GetPage ==
    /\ fetch.pc = "idle"
    /\ \E url \in FetchUrls :
           fetch' = [fetch EXCEPT !.url = url, !.attempt = 0, !.pc = "get"]
    /\ UNCHANGED <<budget_vars, temp_pdfs, parliament, automation>>

\* response = self.session.get(url, **kwargs)
SessionGet ==
    /\ fetch.pc = "get"
    /\ \E outcome \in GetOutcomes :
           fetch' = [fetch EXCEPT
                        !.requests = Append(@, outcome),
                        !.pc = IF outcome.raised = "" THEN "raise_for_status"
                               ELSE IF is_request_exception(outcome.raised) THEN "except"
                               ELSE "raised",
                        !.returned = IF outcome.raised = ""
                                        \/ is_request_exception(outcome.raised)
                                     THEN @ ELSE "raised"]
    /\ UNCHANGED <<budget_vars, temp_pdfs, parliament, automation>>

\* response.raise_for_status()
RaiseForStatus ==
    /\ fetch.pc = "raise_for_status"
    /\ LET checked == raise_for_status(fetch.requests[Len(fetch.requests)])
       IN  fetch' = [fetch EXCEPT
                        !.requests[Len(fetch.requests)] = checked,
                        !.pc = IF checked.raised = "" THEN "sleep" ELSE "except"]
    /\ UNCHANGED <<budget_vars, temp_pdfs, parliament, automation>>

\* time.sleep(random.uniform(0.5, 2.0)); return response
PoliteSleep ==
    /\ fetch.pc = "sleep"
    /\ \E delay \in PoliteDelays :
           fetch' = [fetch EXCEPT !.polite = delay, !.returned = "response",
                                  !.pc = "done"]
    /\ UNCHANGED <<budget_vars, temp_pdfs, parliament, automation>>

\* except requests.exceptions.RequestException as e
HandleRequestException ==
    /\ fetch.pc = "except"
    /\ fetch' = handle_request_exception(fetch)
    /\ UNCHANGED <<budget_vars, temp_pdfs, parliament, automation>>

NextGetPage ==
    GetPage \/ SessionGet \/ RaiseForStatus \/ PoliteSleep \/ HandleRequestException

\* the call runs in one thread and no statement of it blocks for ever
SpecGetPage == InitGetPage /\ [][NextGetPage]_vars /\ WF_vars(NextGetPage)

(***************************************************************************)
(* TreasuryBudgetScraper: pdf_cache and the temporary files                *)
(***************************************************************************)
\* the number of download_pdf and scrape_and_save calls on the instance
MaxCalls == 2

CacheUrls == {pdf_info.url : pdf_info \in PdfInfos}

\* what find_budget_pdfs can return: lists of different urls
PdfLists == {urls \in SeqsUpTo(CacheUrls, MaxDocs) :
                \A i, j \in 1..Len(urls) : i # j => urls[i] # urls[j]}

\* requests.get and raise_for_status pass and the file is written; either of
\* the first two raises; NamedTemporaryFile(delete=False) is made and
\* tmp_file.write raises
DownloadOutcomes == {"ok", "request_error", "write_error"}

\* self.pdf_cache[url]
cached_path(pdf_cache, url) == (CHOOSE entry \in pdf_cache : entry.url = url).filepath

\* download_pdf(url): the instance afterwards and the path returned, 0 for None
download_pdf(scraper, url, outcome) ==
    IF \E entry \in scraper.pdf_cache : entry.url = url
    THEN [ scraper |-> scraper, filepath |-> cached_path(scraper.pdf_cache, url) ]
    ELSE IF outcome = "request_error"
    THEN [ scraper |-> scraper, filepath |-> 0 ]
    ELSE LET name == scraper.created + 1
             made == [scraper EXCEPT !.created = name, !.files = @ \cup {name}]
         IN  IF outcome = "write_error"
             THEN [ scraper |-> made, filepath |-> 0 ]
             ELSE [ scraper |-> [made EXCEPT !.pdf_cache =
                                     @ \cup {[url |-> url, filepath |-> name]}],
                    filepath |-> name ]

\* for pdf_info in pdf_list: pdf_path = self.download_pdf(pdf_info['url'])
RECURSIVE DownloadLoop(_, _, _, _)
DownloadLoop(scraper, pdf_list, outcomes, i) ==
    IF i > Len(pdf_list) THEN scraper
    ELSE DownloadLoop(download_pdf(scraper, pdf_list[i], outcomes[i]).scraper,
                      pdf_list, outcomes, i + 1)

\* for filepath in self.pdf_cache.values(): os.unlink(filepath), errors passed
unlink_cached(scraper) ==
    [scraper EXCEPT !.files = @ \ {entry.filepath : entry \in scraper.pdf_cache}]

\* scrape_and_save from the download loop on: save_to_database keeps its
\* errors to itself, save_raw_data does not, the clean-up comes last
scrape_and_save_files(scraper, pdf_list, outcomes, commit_ok, raw_data_ok) ==
    LET downloaded == DownloadLoop(scraper, pdf_list, outcomes, 1)
        saved == [downloaded EXCEPT
                     !.run_created = (scraper.created + 1)..downloaded.created,
                     !.commit_failed = ~commit_ok,
                     !.returned = 0,
                     !.last_op = "scrape_and_save"]
    IN  IF raw_data_ok
        THEN [unlink_cached(saved) EXCEPT !.raised = FALSE]
        ELSE [saved EXCEPT !.raised = TRUE]

InitTempPdfs ==
    /\ budget_allocations = <<>>
    /\ last_run = NoRun
    /\ run_count = 0
    /\ segment = ""
    /\ department_row = <<>>
    /\ segment_year = ""
    /\ result = NoResult
    /\ given_allocations = <<>>
    /\ summary = NoSummary
    /\ fallback = NoFallback
    /\ spending_split = NoSplit
    /\ fetch = NoFetch
    /\ temp_pdfs = NoTempPdfs
    /\ parliament = NoParliament
    /\ automation = NoAutomation

\* scraper.download_pdf(url)
DownloadPdf ==
    /\ temp_pdfs.calls < MaxCalls
    /\ \E url \in CacheUrls, outcome \in DownloadOutcomes :
           LET call == download_pdf(temp_pdfs, url, outcome)
           IN  temp_pdfs' = [call.scraper EXCEPT !.calls = @ + 1,
                                                 !.last_op = "download_pdf",
                                                 !.returned = call.filepath,
                                                 !.run_created = {},
                                                 !.raised = FALSE,
                                                 !.commit_failed = FALSE]
    /\ UNCHANGED <<budget_vars, fetch, parliament, automation>>

\* scraper.scrape_and_save(fiscal_years)
ScrapeAndSaveFiles ==
    /\ temp_pdfs.calls < MaxCalls
    /\ \E pdf_list \in PdfLists, commit_ok \in BOOLEAN, raw_data_ok \in BOOLEAN :
           \E outcomes \in [1..Len(pdf_list) -> DownloadOutcomes] :
               temp_pdfs' = [scrape_and_save_files(temp_pdfs, pdf_list, outcomes,
                                                   commit_ok, raw_data_ok)
                                EXCEPT !.calls = @ + 1]
    /\ UNCHANGED <<budget_vars, fetch, parliament, automation>>

NextTempPdfs == DownloadPdf \/ ScrapeAndSaveFiles

SpecTempPdfs == InitTempPdfs /\ [][NextTempPdfs]_vars

(***************************************************************************)
(* ParliamentQoNScraper and ParliamentScraper: save_to_database            *)
(***************************************************************************)
\* the longest batch handed to save_to_database
MaxBatch == 2

\* a scraped document: its url, "" with has_key for the empty url
\* (parliament_scraper.py:166) and "" without has_key for a dict without 'url'
ScrapedDocuments ==
    {[url |-> url, has_key |-> TRUE] : url \in {"/qon/1", "/qon/2", ""}}
        \cup {[url |-> "", has_key |-> FALSE]}

Batches == SeqsUpTo(ScrapedDocuments, MaxBatch)

\* url = Column(String(500), unique=True): no two rows with the same url
\* that is not NULL
unique_url(rows) ==
    \A i, j \in 1..Len(rows) :
        (i # j /\ ~rows[i].is_null /\ ~rows[j].is_null) => rows[i].url # rows[j].url

\* ParliamentQoNScraper: the query of lines 398-400 against the committed
\* rows, made only for a question with a url
qon_existing(rows, q) ==
    IF q.url # "" THEN \E i \in 1..Len(rows) : ~rows[i].is_null /\ rows[i].url = q.url
    ELSE FALSE

\* ParliamentScraper: filter_by(url=doc.get('url')), url IS NULL for no key
parliament_existing(rows, doc) ==
    IF doc.has_key
    THEN \E i \in 1..Len(rows) : ~rows[i].is_null /\ rows[i].url = doc.url
    ELSE \E i \in 1..Len(rows) : rows[i].is_null

\* ParliamentaryDocument(..., url=q.get('url', ''), ...)
qon_row(q) ==
    [ url |-> q.url, is_null |-> FALSE, document_type |-> "question_on_notice" ]

\* ParliamentaryDocument(**doc)
parliament_row(doc) ==
    [ url |-> doc.url, is_null |-> ~doc.has_key, document_type |-> "hansard" ]

\* the for loop of ParliamentQoNScraper.save_to_database: the session's new rows
RECURSIVE QonSaveLoop(_, _, _, _)
QonSaveLoop(rows, questions, i, pending) ==
    IF i > Len(questions) THEN pending
    ELSE QonSaveLoop(rows, questions, i + 1,
                     IF qon_existing(rows, questions[i]) THEN pending
                     ELSE Append(pending, qon_row(questions[i])))

\* the for loop of ParliamentScraper.save_to_database
RECURSIVE ParliamentSaveLoop(_, _, _, _)
ParliamentSaveLoop(rows, documents, i, pending) ==
    IF i > Len(documents) THEN pending
    ELSE ParliamentSaveLoop(rows, documents, i + 1,
                            IF parliament_existing(rows, documents[i]) THEN pending
                            ELSE Append(pending, parliament_row(documents[i])))

\* db.commit(): all the new rows, or IntegrityError and db.rollback()
commit_documents(rows, pending) ==
    IF unique_url(rows \o pending) THEN rows \o pending ELSE rows

InitParliament ==
    /\ budget_allocations = <<>>
    /\ last_run = NoRun
    /\ run_count = 0
    /\ segment = ""
    /\ department_row = <<>>
    /\ segment_year = ""
    /\ result = NoResult
    /\ given_allocations = <<>>
    /\ summary = NoSummary
    /\ fallback = NoFallback
    /\ spending_split = NoSplit
    /\ fetch = NoFetch
    /\ temp_pdfs = NoTempPdfs
    /\ parliament = NoParliament
    /\ automation = NoAutomation

\* ParliamentQoNScraper().save_to_database(questions)
QonSaveToDatabase ==
    /\ parliament.saves < MaxCalls
    /\ \E questions \in Batches :
           LET pending == QonSaveLoop(parliament.rows, questions, 1, <<>>)
           IN  parliament' =
                   [ rows |-> commit_documents(parliament.rows, pending),
                     scraper |-> "qon", batch |-> questions,
                     saves |-> parliament.saves + 1,
                     rolled_back |-> ~unique_url(parliament.rows \o pending) ]
    /\ UNCHANGED <<budget_vars, fetch, temp_pdfs, automation>>

\* ParliamentScraper().save_to_database(documents)
ParliamentSaveToDatabase ==
    /\ parliament.saves < MaxCalls
    /\ \E documents \in Batches :
           LET pending == ParliamentSaveLoop(parliament.rows, documents, 1, <<>>)
           IN  parliament' =
                   [ rows |-> commit_documents(parliament.rows, pending),
                     scraper |-> "parliament", batch |-> documents,
                     saves |-> parliament.saves + 1,
                     rolled_back |-> ~unique_url(parliament.rows \o pending) ]
    /\ UNCHANGED <<budget_vars, fetch, temp_pdfs, automation>>

NextParliament == QonSaveToDatabase \/ ParliamentSaveToDatabase

SpecParliament == InitParliament /\ [][NextParliament]_vars

(***************************************************************************)
(* AutomationScheduler.run_all_scrapers                                    *)
(***************************************************************************)
\* the number of daily runs
MaxDailyRuns == 2

\* what scrape_hansard can return
HansardFinds == {<<>>, <<[url |-> "/qon/1", has_key |-> TRUE]>>}

\* what search_questions_on_notice can return
QonFinds ==
    {<<>>} \cup {<<[url |-> "/qon/2", has_key |-> TRUE, spending_flag |-> flag]>> :
                    flag \in BOOLEAN}

\* lines 56-61: one entry of new_documents per item of treasury_docs
RECURSIVE budget_entries(_, _)
budget_entries(treasury_docs, i) ==
    IF i > Len(treasury_docs) THEN <<>>
    ELSE <<[ type |-> "budget", title |-> treasury_docs[i].source_document,
             url |-> treasury_docs[i].source_url ]>>
         \o budget_entries(treasury_docs, i + 1)

\* lines 70-75: one entry per item of hansard_docs
RECURSIVE hansard_entries(_, _)
hansard_entries(hansard_docs, i) ==
    IF i > Len(hansard_docs) THEN <<>>
    ELSE <<[ type |-> "hansard", title |-> "Hansard Record", url |-> hansard_docs[i].url ]>>
         \o hansard_entries(hansard_docs, i + 1)

\* lines 83-88: one entry per item of qon_docs with spending_flag
RECURSIVE qon_entries(_, _)
qon_entries(qon_docs, i) ==
    IF i > Len(qon_docs) THEN <<>>
    ELSE (IF qon_docs[i].spending_flag
          THEN <<[ type |-> "qon", title |-> "QoN: ", url |-> "" ]>>
          ELSE <<>>)
         \o qon_entries(qon_docs, i + 1)

\* lines 64-88: both parliament scrapers save what they found, if anything
save_parliament_finds(documents, hansard_docs, qon_docs) ==
    LET qon_step(after_hansard) ==
            IF qon_docs # <<>>
            THEN commit_documents(after_hansard,
                                  QonSaveLoop(after_hansard, qon_docs, 1, <<>>))
            ELSE after_hansard
    IN  qon_step(IF hansard_docs # <<>>
                 THEN commit_documents(documents,
                                       ParliamentSaveLoop(documents, hansard_docs, 1, <<>>))
                 ELSE documents)

\* whether everything the treasury and parliament scrapers found was stored
\* before the run
only_stored(table, documents, treasury_docs, hansard_docs, qon_docs) ==
    /\ \A i \in 1..Len(treasury_docs) : query_existing(table, treasury_docs[i])
    /\ \A i \in 1..Len(hansard_docs) : parliament_existing(documents, hansard_docs[i])
    /\ \A i \in 1..Len(qon_docs) : qon_existing(documents, qon_docs[i])

\* lines 55-97: new_documents and the alert
collect_new_documents(treasury_docs, hansard_docs, qon_docs) ==
    budget_entries(treasury_docs, 1) \o hansard_entries(hansard_docs, 1)
        \o qon_entries(qon_docs, 1)

\* run_all_scrapers over the two tables: the tables afterwards, new_documents
\* and the alerts sent. An exception of the budget scrape or of the treasury
\* scraper's save_raw_data leaves through the except branch of line 99.
run_all_scrapers(table, documents, rows, pdf_list, hansard_docs, qon_docs, raw_data_ok) ==
    LET finish(after_treasury, treasury_docs, entries) ==
            IF ~raw_data_ok
            THEN [ table |-> after_treasury, documents |-> documents,
                   new_documents |-> <<>>, alert_sent |-> FALSE, error_alert |-> TRUE,
                   found_only_stored |-> FALSE ]
            ELSE [ table |-> after_treasury,
                   documents |-> save_parliament_finds(documents, hansard_docs, qon_docs),
                   new_documents |-> entries,
                   alert_sent |-> entries # <<>>, error_alert |-> FALSE,
                   found_only_stored |-> only_stored(table, documents, treasury_docs,
                                                     hansard_docs, qon_docs) ]
        treasury(parsed, treasury_docs) ==
            IF parsed.raised
            THEN [ table |-> table, documents |-> documents, new_documents |-> <<>>,
                   alert_sent |-> FALSE, error_alert |-> TRUE, found_only_stored |-> FALSE ]
            ELSE finish(treasury_save_to_database(
                            budget_save_to_database(table, parsed.allocations, TRUE),
                            treasury_docs, TRUE),
                        treasury_docs,
                        collect_new_documents(treasury_docs, hansard_docs, qon_docs))
    IN  treasury(BudgetLoop(rows, 1, <<>>), ScrapeLoop(pdf_list, 1, {}))

InitScheduler ==
    /\ budget_allocations = <<>>
    /\ last_run = NoRun
    /\ run_count = 0
    /\ segment = ""
    /\ department_row = <<>>
    /\ segment_year = ""
    /\ result = NoResult
    /\ given_allocations = <<>>
    /\ summary = NoSummary
    /\ fallback = NoFallback
    /\ spending_split = NoSplit
    /\ IdleServices

\* scheduler.run_all_scrapers(); init_db() loads the sample data into the
\* empty database, kept apart from the scraped rows here
RunAllScrapers ==
    /\ automation.runs < MaxDailyRuns
    /\ \E rows \in SeqsUpTo(PipelineRows, 1), pdf_list \in SeqsUpTo(PdfInfos, 1),
          hansard_docs \in HansardFinds, qon_docs \in QonFinds, raw_data_ok \in BOOLEAN :
           LET leave(run) ==
                   /\ budget_allocations' = run.table
                   /\ parliament' = [parliament EXCEPT !.rows = run.documents]
                   /\ automation' =
                          [ runs |-> automation.runs + 1,
                            sample_data |-> TRUE,
                            new_documents |-> run.new_documents,
                            alert_sent |-> run.alert_sent,
                            error_alert |-> run.error_alert,
                            inserted |-> (Len(run.table) - Len(budget_allocations))
                                           + (Len(run.documents) - Len(parliament.rows)),
                            found_only_stored |-> run.found_only_stored ]
           IN  leave(run_all_scrapers(budget_allocations, parliament.rows, rows,
                                      pdf_list, hansard_docs, qon_docs, raw_data_ok))
    /\ UNCHANGED <<last_run, run_count, segment_vars, aggregate_vars, fetch, temp_pdfs>>

NextScheduler == RunAllScrapers

SpecScheduler == InitScheduler /\ [][NextScheduler]_vars

(***************************************************************************)
(* Properties                                                              *)
(***************************************************************************)
\* the rows that TreasuryBudgetScraper.save_to_database inserted
TreasuryTitles == {pdf_info.title : pdf_info \in PdfInfos}

SameNaturalKey(a, b) ==
    /\ a.fiscal_year = b.fiscal_year
    /\ a.program = b.program
    /\ a.amount = b.amount

\* C1: after any sequence of TreasuryBudgetScraper.save_to_database calls the
\* table holds at most one of the rows they inserted per natural key
\* (fiscal_year, program, amount).
OneRowPerNaturalKey ==
    \A i, j \in 1..Len(budget_allocations) :
        ( /\ i < j
          /\ budget_allocations[i].source_document \in TreasuryTitles
          /\ budget_allocations[j].source_document \in TreasuryTitles )
        => ~SameNaturalKey(budget_allocations[i], budget_allocations[j])

\* C2: a scrape_and_save that repeats the previous one over the same
\* documents, both committing, leaves the number of rows as it found it.
TreasuryRunIdempotent ==
    (last_run.scraper = "treasury" /\ last_run.repeats)
        => Len(budget_allocations) = last_run.rows_before

\* a repeated, committed Treasury run whose documents gave candidates and
\* whose first run inserted rows
TreasuryRunRepeated ==
    /\ last_run.scraper = "treasury"
    /\ last_run.repeats
    /\ Len(last_run.candidates) > 0
    /\ last_run.rows_before > 0

\* C3: a BudgetScraper run that repeats the previous one over unchanged
\* department pages, both committing, does not increase the number of rows.
BudgetRunIdempotent ==
    (last_run.scraper = "budget" /\ last_run.repeats)
        => Len(budget_allocations) = last_run.rows_before

\* C4: a text with no detention keyword, no community keyword and no
\* facility name is classified unknown.
NoSignalIsUnknown ==
    ( /\ result.op = "categorize"
      /\ ~AnyKeyword(detention_keywords, lower(segment))
      /\ ~AnyKeyword(community_keywords, lower(segment))
      /\ ~AnyKeyword(facility_names, lower(segment)) )
    => result.label = "unknown"

\* C5: equal nonzero detention and community keyword counts give community;
\* a detention count strictly above the community count gives detention.
TieIsCommunity ==
    result.op = "categorize" =>
        /\ ( /\ KeywordScore(detention_keywords, lower(segment))
                   = KeywordScore(community_keywords, lower(segment))
             /\ KeywordScore(detention_keywords, lower(segment)) > 0 )
           => result.label = "community"
        /\ ( KeywordScore(detention_keywords, lower(segment))
                > KeywordScore(community_keywords, lower(segment)) )
           => result.label = "detention"

\* a classified text with as many detention as community keywords, not none
TieClassified ==
    /\ result.op = "categorize"
    /\ KeywordScore(detention_keywords, lower(segment))
          = KeywordScore(community_keywords, lower(segment))
    /\ KeywordScore(detention_keywords, lower(segment)) > 0

\* a token's mantissa times the magnitude word that directly follows it
NormalizedValue(match) ==
    IF match.magnitude \in {"million", "m"}
    THEN TimesThousand(ParseFloat(StripCommas(match.str)), 1000)
    ELSE IF match.magnitude \in {"thousand", "k"}
    THEN TimesThousand(ParseFloat(StripCommas(match.str)), 1)
    ELSE ParseFloat(StripCommas(match.str))

\* the largest of the tokens' normalized values
LargestNormalized(matches) ==
    CHOOSE v \in {NormalizedValue(matches[i]) : i \in 1..Len(matches)} :
        \A j \in 1..Len(matches) : ~Less(v, NormalizedValue(matches[j]))

\* C6: for a row text with several numeric tokens the amount of
\* _extract_allocation_from_row is the largest of their normalized values.
AmountIsLargestNormalized ==
    ( /\ result.op = "row"
      /\ result.outcome = "allocation"
      /\ Len(AmountMatches(segment, 1)) > 1 )
    => result.candidates[1].amount = LargestNormalized(AmountMatches(segment, 1))

\* C7: a single token with no magnitude word after it is normalized to its
\* mantissa, whatever other words the row text contains.
BareTokenKeepsMantissa ==
    ( /\ result.op = "row"
      /\ result.outcome = "allocation"
      /\ Len(AmountMatches(segment, 1)) = 1
      /\ AmountMatches(segment, 1)[1].magnitude = "" )
    => result.candidates[1].amount
         = ParseFloat(StripCommas(AmountMatches(segment, 1)[1].str))

\* some numeric token of the text parses as a float
TokenParses(text) ==
    \E i \in 1..Len(AmountMatches(text, 1)) :
        ~FloatRaises(StripCommas(AmountMatches(text, 1)[i].str))

\* some numeric token of a cell of the row parses as a float
RowTokenParses(cells) == \E c \in 1..Len(cells) : TokenParses(cells[c].value)

\* C8: a segment, or department row, in which no numeric token parses gives
\* no candidate, and nothing of it is persisted.
NoAmountNoCandidate ==
    ( \/ result.op \in {"row", "text"} /\ ~TokenParses(segment)
      \/ result.op = "budget" /\ ~RowTokenParses(department_row) )
    => (result.candidates = <<>> /\ budget_allocations = <<>>)

\* a row text without a parsable token went through
\* _extract_allocation_from_row and the writer
NoAmountRowSaved ==
    /\ result.op = "row"
    /\ ~TokenParses(segment)
    /\ result.saved

\* C9: _extract_program_name returns a non-empty string for every segment.
ProgramNameNonEmpty == result.op = "program" => result.label # ""

RECURSIVE AmountOver(_, _)
\* the sum of the amounts of the rows of the given numbers
AmountOver(rows, numbers) ==
    IF numbers = {} THEN Zero
    ELSE LET n == CHOOSE m \in numbers : TRUE
         IN  Plus(rows[n].amount, AmountOver(rows, numbers \ {n}))

\* the sum of the amounts of the rows of the given categories
AmountOf(rows, categories) ==
    AmountOver(rows, {n \in 1..Len(rows) : rows[n].category \in categories})

\* C10: detention_total and community_total are the sums of the amounts of
\* the rows of their category, total_budget is their sum, rows of any other
\* category are in neither total nor the percentage denominator, and
\* allocation_count counts every row.
TotalsExcludeUnknown ==
    summary.allocation_count >= 0 =>
        /\ summary.detention_total = AmountOf(given_allocations, {"detention"})
        /\ summary.community_total = AmountOf(given_allocations, {"community"})
        /\ summary.total_budget = Plus(summary.detention_total, summary.community_total)
        /\ summary.total_budget
             = AmountOf(given_allocations, {"detention", "community"})
        /\ Less(Zero, summary.total_budget) =>
               /\ summary.detention_percentage.total = summary.total_budget
               /\ summary.detention_percentage.part = summary.detention_total
               /\ summary.community_percentage.total = summary.total_budget
               /\ summary.community_percentage.part = summary.community_total
        /\ summary.allocation_count = Len(given_allocations)

\* the summary of [{detention,100},{community,50},{unknown,1000}]: total 150
\* over 3 rows
UnknownRowSummarized ==
    /\ given_allocations =
           << [category |-> "detention", amount |-> [whole |-> 100, cents |-> 0]],
              [category |-> "community", amount |-> [whole |-> 50, cents |-> 0]],
              [category |-> "unknown", amount |-> [whole |-> 1000, cents |-> 0]] >>
    /\ summary.allocation_count = 3
    /\ summary.total_budget = [whole |-> 150, cents |-> 0]

\* C11: when a fiscal year has no detention and no community amount, both
\* calculate_detention_vs_community and calculate_spending_split return the
\* fallback percentage pair their caller supplied.
ZeroTotalGivesFallback ==
    /\ (summary.allocation_count >= 0 /\ summary.total_budget = Zero)
           => /\ summary.detention_percentage = fallback.detention
              /\ summary.community_percentage = fallback.community
    /\ (spending_split.total_budget = Zero)
           => /\ spending_split.detention_percentage = fallback.detention
              /\ spending_split.community_percentage = fallback.community

(***************************************************************************)
(* Statistic extractor                                                     *)
(***************************************************************************)
\* w is a numeric token: digits, with at most one "." between digits
IsNumeral(w) ==
    /\ w # ""
    /\ \A i \in 1..Len(w) : IsDigit(At(w, i)) \/ At(w, i) = "."
    /\ Cardinality({i \in 1..Len(w) : At(w, i) = "."}) <= 1
    /\ IsDigit(At(w, 1)) /\ IsDigit(At(w, Len(w)))

\* the last position before q that holds no white space, 0 when none does
LastBefore(text, q) ==
    LET found == {j \in 1..(q - 1) : ~IsSpace(At(text, j))}
    IN  IF found = {} THEN 0 ELSE Greatest(found)

\* the value of the longest numeric token that ends at position e
TokenValueAt(text, e) ==
    ParseFloat(SubSeq(text, Least({i \in 1..e : IsNumeral(SubSeq(text, i, e))}), e))

\* the "%" signs of text that follow a numeric token
PercentSigns(text) ==
    {q \in 1..Len(text) : At(text, q) = "%" /\ IsDigit(At(text, LastBefore(text, q)))}

\* the "$" signs of text that open an amount token
DollarSigns(text) ==
    {q \in 1..Len(text) :
        At(text, q) = "$" /\ IsNumChar(At(text, SkipSpaces(text, q + 1)))}

\* the value of the amount token the "$" at q opens: its number times the
\* magnitude word that follows it
DollarValueAt(text, q) ==
    LET start == SkipSpaces(text, q + 1)
        e     == NumberEnd(text, start)
    IN  multiplied(ParseFloat(StripCommas(SubSeq(text, start, e - 1))),
                   multiplier_at(text, SkipSpaces(text, e)))

\* the positions where 'times' or 'x' follows a numeric token and is
\* followed by a comparison word
RatePhrases(text) ==
    {p \in 1..Len(text) :
        /\ times_at(text, p) # ""
        /\ IsDigit(At(text, LastBefore(text, p)))
        /\ comparison_at(text, SkipSpaces(text, p + Len(times_at(text, p)))) # ""}

\* the statistics of one type in result
StatisticsOf(type) ==
    {k \in 1..Len(result.candidates) : result.candidates[k].type = type}

\* the statistics of a type are, value by value, those of the positions
SameValues(type, positions, value_at(_)) ==
    /\ Cardinality(StatisticsOf(type)) = Cardinality(positions)
    /\ \A q \in positions :
           Cardinality({k \in StatisticsOf(type) :
                           result.candidates[k].value = value_at(q)})
             = Cardinality({r \in positions : value_at(r) = value_at(q)})

RECURSIVE Windows(_, _, _)
\* the window of each match: the match with up to 50 characters of text on
\* each side, without the white space at the ends of the window
Windows(text, matches, i) ==
    IF i > Len(matches) THEN <<>>
    ELSE <<strip(context_slice(text, matches[i]))>> \o Windows(text, matches, i + 1)

\* C13: every statistic of the list, of whichever type, has as context the
\* window of its match: the match and up to 50 characters before and after
\* it, cut short only where the text begins or ends.
EveryStatisticHasWindow ==
    (result.op = "statistics" /\ result.outcome = "list") =>
        LET same(windows) ==
                /\ Len(windows) = Len(result.candidates)
                /\ \A k \in 1..Len(windows) : result.candidates[k].context = windows[k]
        IN  same(Windows(segment, PercentageMatches(segment, 1), 1)
                   \o Windows(segment, StatisticAmountMatches(segment, 1), 1)
                   \o Windows(segment, RateMatches(segment, 1), 1))

\* text is one "$" token of the Amount Normalizer and nothing more: "$", a
\* number, and at most white space and a magnitude word after it
IsDollarToken(text) ==
    /\ At(text, 1) = "$"
    /\ IsNumChar(At(text, 2))
    /\ LET whole(matches, e) ==
               /\ Len(matches) = 1
               /\ SkipSpaces(text, e) + Len(matches[1].magnitude) = Len(text) + 1
       IN  whole(AmountMatches(text, 1), NumberEnd(text, 2))

\* C14: for a "$" token with or without magnitude word, the amount
\* _extract_statistics gives is the amount _extract_allocation_from_row
\* gives for the same token.
StatisticAmountIsNormalized ==
    (result.op = "statistics" /\ result.outcome = "list" /\ IsDollarToken(segment)) =>
        /\ Len(result.candidates) = 1
        /\ result.candidates[1].type = "amount"
        /\ result.candidates[1].value
             = extract_allocation_from_row(segment, "2024-25").amount

(***************************************************************************)
(* Error handling of the extraction and of the runs                        *)
(***************************************************************************)
\* the descriptions of the rows and sentences that DocumentAround puts after
\* the segment: the last row of the first table, the second table, the
\* last sentence of the second page, the table of the third page
LaterSegments ==
    { "Youth court services 900", "Youth diversion 12",
      "Youth crime prevention 3 million", "Youth engagement 7" }

\* C15: whatever the second data row and the second sentence of a document
\* are, also when decoding them raises, every later row of the same table,
\* every later table, the sentences of the page and the later pages are
\* processed: their allocations are in the list the extraction returns.
ParseFailureSkipsSegmentOnly ==
    result.op = "document" =>
        \A description \in LaterSegments :
            \E k \in 1..Len(result.candidates) :
                result.candidates[k].description = description

\* the allocations of the document behind a URL, metadata added
DocumentAllocations(url) ==
    PdfAllocations(CHOOSE pdf_info \in PdfInfos : pdf_info.url = url)

EarlierDocumentStaysCommitted ==
    ( /\ last_run.scraper = "treasury"
      /\ ~last_run.committed
      /\ Len(last_run.documents) >= 2
      /\ last_run.documents[1] # ""
      /\ last_run.documents[2] # "" )
        => \A a \in 1..Len(DocumentAllocations(last_run.documents[1])) :
               \E r \in 1..Len(budget_allocations) :
                   SameNaturalKey(budget_allocations[r],
                                  DocumentAllocations(last_run.documents[1])[a])

\* C18: the number a committed scrape_and_save run reports as saved is the
\* number of rows the run added to the table; a candidate skipped because
\* its natural key is stored already is not in the number.
ReportedIsInserted ==
    (last_run.scraper = "treasury" /\ last_run.committed)
        => reported_saved(last_run) = Len(budget_allocations) - last_run.rows_before

(***************************************************************************)
(* Invariants of the candidates                                            *)
(***************************************************************************)
\* C19: every allocation made from a row, a text, a document or a
\* department page has the fiscal year the caller handed in with it.
FiscalYearIsTheCallers ==
    result.op \in {"row", "text", "document", "budget"} =>
        \A k \in 1..Len(result.candidates) :
            result.candidates[k].fiscal_year = segment_year

\* C20: no candidate of the table path, the text path or BudgetScraper, and
\* no row the writers have stored, has an amount below 0.
AmountNeverNegative ==
    /\ result.op \in {"row", "text", "document", "budget"} =>
           \A k \in 1..Len(result.candidates) :
               ~Less(result.candidates[k].amount, Zero)
    /\ \A r \in 1..Len(budget_allocations) : ~Less(budget_allocations[r].amount, Zero)

\* the row "Youth justice savings -450" gave a candidate of amount 450, which
\* the writer stored
MinusSignRowSaved ==
    /\ segment = "Youth justice savings -450"
    /\ result.op = "row"
    /\ result.saved
    /\ Len(budget_allocations) = 1
    /\ budget_allocations[1].amount = [whole |-> 450, cents |-> 0]

(***************************************************************************)
(* Classifier scores                                                       *)
(***************************************************************************)
\* the number of places of text_lower at which a keyword of the list begins
OccurrenceCount(keywords, text_lower) ==
    Cardinality({<<k, i>> \in (1..Len(keywords)) \X (1..Len(text_lower)) :
                    StartsWithAt(text_lower, i, keywords[k])})

\* C21: for a text that holds a detention keyword, a community keyword or a
\* facility name, the category is the one the decision rule gives on the
\* numbers of occurrences of the keywords of each list: detention when the
\* detention keywords occur more often than the community keywords, else
\* community when a community keyword occurs, else detention.
CategoryFollowsOccurrences ==
    LET decide(detention_count, community_count, facility) ==
            (detention_count > 0 \/ community_count > 0 \/ facility) =>
                result.label = IF detention_count > community_count THEN "detention"
                               ELSE IF community_count > 0 THEN "community"
                               ELSE "detention"
    IN  result.op = "categorize" =>
            decide(OccurrenceCount(detention_keywords, lower(segment)),
                   OccurrenceCount(community_keywords, lower(segment)),
                   AnyKeyword(facility_names, lower(segment)))

(***************************************************************************)
(* The summary of a run                                                    *)
(***************************************************************************)
\* C22: the summary a scrape_and_save run gives for a fiscal year is the
\* aggregate of the rows the table holds for that year once the writer has
\* run: a skipped or rolled back candidate is in none of its numbers.
SummaryIsOverStoredRows ==
    last_run.scraper = "treasury" =>
        \A year \in FiscalYears :
            Len(by_year(last_run.candidates, year, 1)) > 0 =>
                year_summary(last_run.candidates, year)
                  = calculate_detention_vs_community(
                        query_fiscal_year(budget_allocations, year, 1))

(***************************************************************************)
(* Descriptions and segments                                               *)
(***************************************************************************)
\* C23: the description of every candidate, whether made from a table row,
\* from a sentence or from a row of a department page, has at most 500
\* characters.
DescriptionIsBounded ==
    result.op \in {"row", "text", "document", "budget"} =>
        \A k \in 1..Len(result.candidates) :
            Len(result.candidates[k].description) <= 500

\* C24: of the table TableAround(segment), whose first row is the header,
\* every data row that holds a youth justice keyword is handed to
\* _extract_allocation_from_row (seen where the row gives an allocation: it
\* is among the allocations of the table), and every allocation of the table
\* comes from a row that holds a keyword.
KeywordRowsAreProcessed ==
    LET located(allocation) ==
            /\ allocation.kind = "allocation" =>
                   \E k \in 1..Len(result.candidates) :
                       result.candidates[k].description = allocation.description
            /\ \A k \in 1..Len(result.candidates) :
                   AnyKeyword(youth_justice_keywords,
                              lower(result.candidates[k].description))
    IN  result.op = "table" => located(process_row(segment, segment_year))

\* C25: for a text that holds a youth justice keyword and "$1.65 million",
\* _extract_text_allocations gives an allocation of 1,650,000, the amount
\* _extract_allocation_from_row gives for the same text.
TextPathKeepsDecimalToken ==
    ( /\ result.op = "text"
      /\ Contains(segment, "$1.65 million")
      /\ AnyKeyword(youth_justice_keywords, lower(segment)) )
        => /\ extract_allocation_from_row(segment, segment_year).amount
                = [whole |-> 1650000, cents |-> 0]
           /\ \E k \in 1..Len(result.candidates) :
                  result.candidates[k].amount = [whole |-> 1650000, cents |-> 0]

\* an attempt of get_page that ended in a request error
RequestFailed(request) == is_request_exception(request.raised)

\* what holds of a get_page call at every statement of it
RetryContract ==
    LET attempts == Len(fetch.requests)
        between == IF fetch.pc \in {"idle", "get"} THEN attempts ELSE attempts - 1
    IN  /\ attempts <= 3
        /\ \A i \in 1..(attempts - 1) : RequestFailed(fetch.requests[i])
        /\ fetch.returned = "response" =>
               /\ fetch.pc = "done"
               /\ fetch.requests[attempts].raised = ""
               /\ fetch.requests[attempts].status = 200
        /\ fetch.pc \in {"done", "raised"} =>
               (fetch.returned = "None" <=>
                    /\ attempts = 3
                    /\ \A i \in 1..3 : RequestFailed(fetch.requests[i]))
        /\ fetch.waits = [i \in 1..between |-> i * retry_delay]
        /\ Len(fetch.waits) <= 2

\* C26: a get_page call ends after at most 3 attempts; it returns the response
\* of the first attempt that succeeds and attempts nothing after it; it returns
\* None exactly when all 3 attempts failed with a request error; after the
\* first and the second failure it waits 1 and 2 times the retry delay, and
\* after the last failure it does not wait.
GetPageContract ==
    /\ []RetryContract
    /\ [][fetch.returned # "pending" => fetch' = fetch]_vars
    /\ <>(fetch.pc \in {"done", "raised"})

\* three request errors in a row: two waits, then None
GetPageGivesUp ==
    /\ fetch.pc = "done"
    /\ fetch.returned = "None"
    /\ Len(fetch.requests) = 3
    /\ fetch.waits = <<1, 2>>

\* C27: a path that download_pdf returns, new or from pdf_cache, names a
\* temporary file that exists when it is returned.
ReturnedPathExists ==
    (temp_pdfs.last_op = "download_pdf" /\ temp_pdfs.returned # 0)
        => temp_pdfs.returned \in temp_pdfs.files

\* C28: when a scrape_and_save call has ended, by return or by exception, no
\* temporary file made during the call is left.
RunLeavesNoTempFile ==
    temp_pdfs.last_op = "scrape_and_save"
        => temp_pdfs.run_created \cap temp_pdfs.files = {}

\* C29: after a save_to_database call of either parliament scraper every
\* document of the batch that has a url is stored under it, whatever else
\* the batch holds, and no two rows of the table share a url.
BatchDocumentsArePersisted ==
    /\ \A i \in 1..Len(parliament.batch) :
           parliament.batch[i].url # "" =>
               \E r \in 1..Len(parliament.rows) :
                   /\ ~parliament.rows[r].is_null
                   /\ parliament.rows[r].url = parliament.batch[i].url
    /\ unique_url(parliament.rows)

\* C30: a run of run_all_scrapers that found only content stored before it
\* and inserted no row leaves new_documents empty and sends no
\* new-documents alert.
AlertOnlyForNewDocuments ==
    (/\ automation.runs > 0
     /\ ~automation.error_alert
     /\ automation.found_only_stored
     /\ automation.inserted = 0)
        => (automation.new_documents = <<>> /\ ~automation.alert_sent)


====
